---- MODULE Spec2Model ----
(***************************************************************************)
(* Behavioural model of the telegram-gpt context/token budget manager,     *)
(* prompt assembly layer, provider adapters and request handlers.          *)
(*                                                                         *)
(* Each subsystem has its own variables and its own specification:         *)
(*   SpecTrim    - trim_messages_to_fit / TokenManager.trim_to_fit         *)
(*   SpecTurn    - process_request / process_image_request / ChatCLI       *)
(*   SpecAdapter - get_completion of the provider adapters                 *)
(*   SpecPrompt  - PromptBuilder.build_system_prompt                       *)
(*   SpecFormat  - format_messages                                         *)
(*   SpecCount   - count_tokens, count_message_tokens, _estimate_tokens    *)
(*   SpecStream  - stream_response_to_user                                 *)
(*   SpecRequest - message_handler: reply context and system prompt        *)
(***************************************************************************)
EXTENDS Integers, Sequences, FiniteSets

VARIABLES
    trim_last,      \* << >> or <<the last trim call: its arguments and result>>
    turn,           \* state of the request handlers (a record, see TurnInit)
    adapter_calls,  \* the get_completion calls made so far, with their results
    prompt_last,    \* << >> or <<the last build_system_prompt call>>
    format_last,    \* << >> or <<the last format_messages call>>
    count_last,     \* << >> or <<the last token counting call>>
    stream_last,    \* << >> or <<the last stream_response_to_user run>>
    request_last,   \* << >> or <<the last request a message handler built>>
    limit_last, \* << >> or <<the last get_max_context_tokens call>>
    auth, \* the granted users and the last update handled (see AuthIdle)
    trims, \* the trim calls in progress, one per chat (see TrimIdle)
    throttle  \* the streaming loop with its clock (see ThrottleIdle)

vars ==
    <<trim_last, turn, adapter_calls, prompt_last, format_last, count_last,
      stream_last, request_last,
      limit_last,
      auth,
      trims,
      throttle>>

(***************************************************************************)
(* Bounds of the model                                                     *)
(***************************************************************************)
MaxCost == 2
MaxTail == 3
MaxHead == 19
MaxTokens == 6

(***************************************************************************)
(* Context trimming                                                        *)
(***************************************************************************)

\* messages[-20:] of the exception fallback
FallbackKeep == 20

\* reserve_tokens values tried (the callers pass 1000 and 3000)
ReserveChoices == {0, 1}

\* What provider.count_tokens([message]) does for one message: it returns a
\* cost, or it raises.
CountOutcomes ==
    [cost : 1..MaxCost, raises : {FALSE}] \cup {[cost |-> 0, raises |-> TRUE]}

\* A message of the input list: its position identifies it.
Message(i, c) == [id |-> i, cost |-> c.cost, raises |-> c.raises]

\* The input lists: h older messages of one count outcome followed by a tail
\* of up to MaxTail messages of arbitrary count outcomes.
Tails == UNION {[1..n -> CountOutcomes] : n \in 0..MaxTail}

MessageList(h, hc, tail) ==
    [i \in 1..(h + Len(tail)) |->
        IF i <= h THEN Message(i, hc) ELSE Message(i, tail[i - h])]

\* messages[-n:]
LastN(messages, n) ==
    IF Len(messages) <= n THEN messages
    ELSE SubSeq(messages, Len(messages) - n + 1, Len(messages))

FitsStrict(current_tokens, msg_tokens, available_tokens) ==
    current_tokens + msg_tokens < available_tokens

\* if current_tokens + msg_tokens <= available_tokens
Fits(current_tokens, msg_tokens, available_tokens) ==
    current_tokens + msg_tokens <= available_tokens

KeepNothing(message) == << >>

\* kept_messages = [message]: the newest message is kept although over budget
KeepAnyway(message) == <<message>>

WalkResult(kept, tokens, raised, warned) ==
    [kept |-> kept, tokens |-> tokens, raised |-> raised, warned |-> warned]

RECURSIVE ReverseWalk(_, _, _, _, _)

SkipAndContinue(messages, i, current_tokens, kept_messages, available_tokens) ==
    ReverseWalk(messages, i - 1, current_tokens, kept_messages, available_tokens)

\* else: break  (stop adding messages)
StopAdding(messages, i, current_tokens, kept_messages, available_tokens) ==
    WalkResult(kept_messages, current_tokens, FALSE, FALSE)

\* for message in reversed(messages): ...   (i is the position of the message
\* the loop looks at next, 0 when the loop is exhausted)
ReverseWalk(messages, i, current_tokens, kept_messages, available_tokens) ==
    IF i = 0 THEN WalkResult(kept_messages, current_tokens, FALSE, FALSE)
    ELSE LET message == messages[i] IN
        IF message.raises
        THEN WalkResult(kept_messages, current_tokens, TRUE, FALSE)
        ELSE IF Fits(current_tokens, message.cost, available_tokens)
        THEN ReverseWalk(messages, i - 1, current_tokens + message.cost,
                         <<message>> \o kept_messages, available_tokens)
        ELSE IF kept_messages = << >>
        THEN WalkResult(KeepAnyway(message), current_tokens, FALSE, TRUE)
        ELSE StopAdding(messages, i, current_tokens, kept_messages,
                        available_tokens)

\* trim_messages_to_fit(messages, max_tokens, provider, reserve_tokens)
trim_messages_to_fit(messages, max_tokens, reserve_tokens) ==
    IF Len(messages) = 0 THEN WalkResult(<< >>, 0, FALSE, FALSE)
    ELSE IF Len(messages) = 1 THEN WalkResult(messages, 0, FALSE, FALSE)
    ELSE LET available_tokens == max_tokens - reserve_tokens
             w == ReverseWalk(messages, Len(messages), 0, << >>, available_tokens)
         IN  IF w.raised
             THEN WalkResult(LastN(messages, FallbackKeep), w.tokens, TRUE, FALSE)
             ELSE w

\* TokenManager.trim_to_fit(messages, reserve_tokens): the same text with
\* self.max_tokens and self.count_tokens
trim_to_fit(messages, self_max_tokens, reserve_tokens) ==
    IF Len(messages) = 0 THEN WalkResult(<< >>, 0, FALSE, FALSE)
    ELSE IF Len(messages) = 1 THEN WalkResult(messages, 0, FALSE, FALSE)
    ELSE LET available_tokens == self_max_tokens - reserve_tokens
             w == ReverseWalk(messages, Len(messages), 0, << >>, available_tokens)
         IN  IF w.raised
             THEN WalkResult(LastN(messages, FallbackKeep), w.tokens, TRUE, FALSE)
             ELSE w

TrimCall(impl, messages, max_tokens, reserve_tokens, result) ==
    [impl |-> impl, messages |-> messages, max_tokens |-> max_tokens,
     reserve_tokens |-> reserve_tokens, result |-> result]

\* A caller invokes trim_messages_to_fit.
CallTrimMessagesToFit ==
    /\ trim_last = << >>
    /\ \E h \in 0..MaxHead, hc \in CountOutcomes, tail \in Tails,
          max_tokens \in 0..MaxTokens, reserve_tokens \in ReserveChoices :
          LET messages == MessageList(h, hc, tail) IN
          trim_last' = <<TrimCall("trim_messages_to_fit", messages, max_tokens,
                reserve_tokens,
                trim_messages_to_fit(messages, max_tokens, reserve_tokens))>>
    /\ UNCHANGED <<turn, adapter_calls, prompt_last, format_last,
                 count_last, stream_last, request_last,
                   limit_last,
                   auth,
                   trims,
                   throttle>>

\* A caller invokes TokenManager.trim_to_fit.
CallTrimToFit ==
    /\ trim_last = << >>
    /\ \E h \in 0..MaxHead, hc \in CountOutcomes, tail \in Tails,
          max_tokens \in 0..MaxTokens, reserve_tokens \in ReserveChoices :
          LET messages == MessageList(h, hc, tail) IN
          trim_last' = <<TrimCall("trim_to_fit", messages, max_tokens,
                reserve_tokens,
                trim_to_fit(messages, max_tokens, reserve_tokens))>>
    /\ UNCHANGED <<turn, adapter_calls, prompt_last, format_last,
                 count_last, stream_last, request_last,
                   limit_last,
                   auth,
                   trims,
                   throttle>>

(***************************************************************************)
(* Trim calls that overlap: one call per chat, advancing one statement     *)
(* group at a time, in any order                                           *)
(***************************************************************************)

Chats == {1, 2}

\* The locals of one call.  messages is the caller's list object, arg its
\* value when the call began (a history variable).
TrimFrame(pc, messages, arg, max_tokens, i, current_tokens, kept_messages, result) ==
    [pc |-> pc, messages |-> messages, arg |-> arg, max_tokens |-> max_tokens,
     i |-> i, current_tokens |-> current_tokens,
     kept_messages |-> kept_messages, result |-> result]

TrimIdle == TrimFrame("idle", << >>, << >>, 0, 0, 0, << >>, << >>)

\* the histories of the chats: a run of like messages and a newest one
ChatHistories ==
    {MessageList(h, hc, t) :
        h \in 0..(MaxTail - 1), hc \in CountOutcomes,
        t \in {<< >>} \cup {<<c>> : c \in CountOutcomes}}

\* the max_tokens the callers pass: nothing fits, little fits, much fits
BudgetChoices == {0, MaxCost, MaxTokens}

SharedRunningTotal(frames, chat) ==
    frames[1].current_tokens + frames[2].current_tokens

\* current_tokens is a local variable of the call
running_total(frames, chat) == frames[chat].current_tokens

\* A call begins: the two early returns, or the loop is entered.
BeginTrim(chat) ==
    /\ trims[chat].pc = "idle"
    /\ \E messages \in ChatHistories, max_tokens \in BudgetChoices :
          trims' = [trims EXCEPT ![chat] =
             IF Len(messages) = 0
             THEN TrimFrame("done", messages, messages, max_tokens, 0, 0,
                            << >>, << >>)
             ELSE IF Len(messages) = 1
             THEN TrimFrame("done", messages, messages, max_tokens, 0, 0,
                            << >>, messages)
             ELSE TrimFrame("loop", messages, messages, max_tokens,
                            Len(messages), 0, << >>, << >>)]
    /\ UNCHANGED <<trim_last, turn, adapter_calls, prompt_last, format_last,
                   count_last, stream_last, request_last, limit_last, auth,
                   throttle>>

\* One iteration of `for message in reversed(messages)`, or the return after
\* the loop.
TrimStep(chat) ==
    /\ trims[chat].pc = "loop"
    /\ LET f == trims[chat]
           message == f.messages[f.i]
           total == running_total(trims, chat)
       IN  trims' = [trims EXCEPT ![chat] =
              IF f.i = 0
              THEN [f EXCEPT !.pc = "done", !.result = f.kept_messages]
              ELSE IF message.raises
              THEN [f EXCEPT !.pc = "done",
                             !.result = LastN(f.messages, FallbackKeep)]
              ELSE IF Fits(total, message.cost, f.max_tokens)
              THEN [f EXCEPT !.kept_messages = <<message>> \o @,
                             !.current_tokens = total + message.cost,
                             !.i = @ - 1]
              ELSE IF f.kept_messages = << >>
              THEN [f EXCEPT !.pc = "done", !.result = KeepAnyway(message)]
              ELSE [f EXCEPT !.pc = "done", !.result = f.kept_messages]]
    /\ UNCHANGED <<trim_last, turn, adapter_calls, prompt_last, format_last,
                   count_last, stream_last, request_last, limit_last, auth,
                   throttle>>

(***************************************************************************)
(* Token counting: TokenManager.count_tokens, count_message_tokens,        *)
(* _estimate_tokens and GeminiProvider.count_tokens                        *)
(*                                                                         *)
(* An attribute value is seen through str(value): its length in            *)
(* characters and the number of tokens the encoding gives it (or encode    *)
(* raises).  A list entry is a dict (a sequence of attributes) or it is    *)
(* not a dict and has no items()/values().                                 *)
(***************************************************************************)

MaxChars == 3
MaxToks == 2
MaxList == 2

Val(chars, toks) == [chars |-> chars, toks |-> toks, raises |-> FALSE]

\* a value whose encoding raises
Unencodable == [chars |-> 1, toks |-> 0, raises |-> TRUE]

\* str(value) of strings and of non-string values alike
Values ==
    {Val(c, t) : c \in 0..MaxChars, t \in 0..MaxToks} \cap
        {v \in [chars : 0..MaxChars, toks : 0..MaxToks, raises : {FALSE}] :
            IF v.chars = 0 THEN v.toks = 0 ELSE v.toks >= 1 /\ v.toks <= v.chars}

Attr(key, value) == [key |-> key, value |-> value]

Dict(attrs) == [dict |-> TRUE, attrs |-> attrs]

\* an entry that is no dict (a str, None)
NotADict == [dict |-> FALSE, attrs |-> << >>]

\* "user"
RoleValue == Val(4, 1)

\* "Bob"
NameValue == Val(3, 1)

\* the message dicts: role present or missing, a content, name present or not
Dicts ==
    {Dict(r \o <<Attr("content", v)>> \o n) :
        r \in {<< >>, <<Attr("role", RoleValue)>>},
        v \in Values \cup {Unencodable},
        n \in {<< >>, <<Attr("name", NameValue)>>}}

Entries == Dicts \cup {NotADict}

EntryLists == UNION {[1..n -> Entries] : n \in 0..MaxList}

Counted(n) == [kind |-> "returned", value |-> n]

CountRaised == [kind |-> "raised", value |-> 0]

RECURSIVE attr_chars(_, _)
\* for value in message.values(): total_chars += len(str(value))
attr_chars(attrs, i) ==
    IF i = 0 THEN 0 ELSE attr_chars(attrs, i - 1) + attrs[i].value.chars

RECURSIVE total_chars(_, _)
\* for message in messages: ...
total_chars(messages, i) ==
    IF i = 0 THEN 0
    ELSE total_chars(messages, i - 1)
            + attr_chars(messages[i].attrs, Len(messages[i].attrs))

EstimatedPerCharacter(messages, chars) ==
    chars + (Len(messages) * 4)

\* estimated = (total_chars // 4) + (len(messages) * 4)
Estimated(messages, chars) ==
    (chars \div 4) + (Len(messages) * 4)

\* _estimate_tokens (TokenManager and GeminiProvider have the same text):
\* message.values() raises AttributeError for an entry that is no dict
estimate_tokens(messages) ==
    IF \E i \in 1..Len(messages) : ~messages[i].dict
    THEN CountRaised
    ELSE Counted(Estimated(messages, total_chars(messages, Len(messages))))

RECURSIVE attr_tokens(_, _)
\* for key, value in message.items(): num_tokens += len(encode(str(value)))
\* and -1 for key == "name"
attr_tokens(attrs, i) ==
    IF i = 0 THEN 0
    ELSE attr_tokens(attrs, i - 1) + attrs[i].value.toks
            + (IF attrs[i].key = "name" THEN -1 ELSE 0)

RECURSIVE num_tokens(_, _)
\* for message in messages: num_tokens += 4; ...
num_tokens(messages, i) ==
    IF i = 0 THEN 0
    ELSE num_tokens(messages, i - 1) + 4
            + attr_tokens(messages[i].attrs, Len(messages[i].attrs))

\* the try body of count_tokens raises: items() of a non-dict, or encode
ExactRaises(messages) ==
    \E i \in 1..Len(messages) :
        \/ ~messages[i].dict
        \/ \E j \in 1..Len(messages[i].attrs) : messages[i].attrs[j].value.raises

\* TokenManager.count_tokens; encoding is FALSE when self.encoding is None
count_tokens(encoding, messages) ==
    IF ~encoding THEN estimate_tokens(messages)
    ELSE IF ExactRaises(messages) THEN estimate_tokens(messages)
    ELSE Counted(num_tokens(messages, Len(messages)) + 2)

\* GeminiProvider.count_tokens
gemini_count_tokens(messages) == estimate_tokens(messages)

\* the reply priming count_message_tokens removes
SubtractPriming(n) == n - 2

\* TokenManager.count_message_tokens(role, content)
count_message_tokens(encoding, role, content) ==
    LET message == Dict(<<Attr("role", role), Attr("content", content)>>)
        counted == count_tokens(encoding, <<message>>)
    IN  IF counted.kind = "raised" THEN counted
        ELSE Counted(SubtractPriming(counted.value))

CountCall(impl, encoding, messages, result) ==
    [op |-> "count_tokens", impl |-> impl, encoding |-> encoding,
     messages |-> messages, result |-> result,
     before |-> IF Len(messages) = 0 THEN result
                ELSE IF impl = "TokenManager"
                THEN count_tokens(encoding, SubSeq(messages, 1, Len(messages) - 1))
                ELSE gemini_count_tokens(SubSeq(messages, 1, Len(messages) - 1))]

\* A caller counts a message list with TokenManager.count_tokens.
CallCountTokens ==
    /\ count_last = << >>
    /\ \E encoding \in BOOLEAN, messages \in EntryLists :
          count_last' = <<CountCall("TokenManager", encoding, messages,
                                    count_tokens(encoding, messages))>>
    /\ UNCHANGED <<trim_last, turn, adapter_calls, prompt_last, format_last,
                   stream_last, request_last,
                   limit_last,
                   auth,
                   trims,
                   throttle>>

\* A handler counts one message with TokenManager.count_message_tokens.
CallCountMessageTokens ==
    /\ count_last = << >>
    /\ \E encoding \in BOOLEAN, content \in Values \cup {Unencodable} :
          LET message == Dict(<<Attr("role", RoleValue), Attr("content", content)>>)
          IN  count_last' =
                <<[op |-> "count_message_tokens", impl |-> "TokenManager",
                   encoding |-> encoding, messages |-> <<message>>,
                   result |-> count_message_tokens(encoding, RoleValue, content),
                   before |-> Counted(0)]>>
    /\ UNCHANGED <<trim_last, turn, adapter_calls, prompt_last, format_last,
                   stream_last, request_last,
                   limit_last,
                   auth,
                   trims,
                   throttle>>

\* A caller counts a message list with GeminiProvider.count_tokens.
CallGeminiCountTokens ==
    /\ count_last = << >>
    /\ \E messages \in EntryLists :
          count_last' = <<CountCall("GeminiProvider", FALSE, messages,
                                    gemini_count_tokens(messages))>>
    /\ UNCHANGED <<trim_last, turn, adapter_calls, prompt_last, format_last,
                   stream_last, request_last,
                   limit_last,
                   auth,
                   trims,
                   throttle>>

\* Tokens the encoding can give the fixed text of the str() of a two-part
\* content list (brackets, braces, keys, 'detail': 'auto').
FrameToks == {29, 30}

\* str(value) of the content process_image_request builds:
\* [{'type': 'text', 'text': <text>},
\*  {'type': 'image_url', 'image_url': {'url': <url>, 'detail': 'auto'}}]
\* The fixed text has 97 characters; the text and the url follow in full.
parts_value(text, url, frame) ==
    Val(97 + text.chars + url.chars, frame + text.toks + url.toks)

\* the message dict whose content is a text part and an image part
image_message(text, url, frame) ==
    Dict(<<Attr("role", RoleValue),
           Attr("content", parts_value(text, url, frame))>>)

\* A caller counts a message whose content is a list of parts.
CallCountImageMessage ==
    /\ count_last = << >>
    /\ \E encoding \in BOOLEAN, text \in Values, url \in Values,
          frame \in FrameToks :
          count_last' =
             <<[op |-> "count_image_message", impl |-> "TokenManager",
                encoding |-> encoding,
                messages |-> <<image_message(text, url, frame)>>,
                text |-> text, url |-> url, frame |-> frame,
                result |-> count_tokens(encoding,
                                        <<image_message(text, url, frame)>>),
                before |-> Counted(0)]>>
    /\ UNCHANGED <<trim_last, turn, adapter_calls, prompt_last, format_last,
                   stream_last, request_last, limit_last,
                   auth,
                   trims,
                   throttle>>

(***************************************************************************)
(* The context a handler assembles: rows stored with their token_count,    *)
(* Database.get_messages_by_tokens, TokenManager.trim_to_fit               *)
(***************************************************************************)

MaxRows == 2
MaxBudget == 24

\* str(None) and str(False)
NoneValue == Val(4, 1)
FalseValue == Val(5, 1)

\* token_count=user_tokens with user_tokens = count_message_tokens(role, content)
Row(encoding, content) ==
    [content |-> content,
     token_count |-> count_message_tokens(encoding, RoleValue, content).value]

RowLists(encoding) ==
    UNION {[1..n -> {Row(encoding, v) : v \in Values \cup {Unencodable}}] :
              n \in 1..MaxRows}

\* the dict get_messages_by_tokens builds from a row: the token_count column
\* is not copied
row_dict(row) ==
    Dict(<<Attr("role", RoleValue), Attr("content", row.content),
           Attr("sender_name", NameValue), Attr("sender_username", NoneValue),
           Attr("is_group_chat", FalseValue)>>)

RECURSIVE accumulate_rows(_, _, _, _, _)
\* for row in cur.fetchall(): (newest first; i is the row looked at next)
accumulate_rows(rows, i, temp_messages, total_tokens, max_tokens) ==
    IF i = 0 THEN temp_messages
    ELSE LET msg_tokens == rows[i].token_count IN
         IF temp_messages = << >> \/ total_tokens + msg_tokens <= max_tokens
         THEN accumulate_rows(rows, i - 1, <<i>> \o temp_messages,
                              total_tokens + msg_tokens, max_tokens)
         ELSE temp_messages

\* Database.get_messages_by_tokens: the positions of the rows returned, in
\* chronological order
get_messages_by_tokens(rows, max_tokens) ==
    accumulate_rows(rows, Len(rows), << >>, 0, max_tokens)

\* the cost the trimmer takes for a message:
\* msg_tokens = self.count_tokens([message])
TrimmerCost(encoding, row) == count_tokens(encoding, <<row_dict(row)>>)

\* steps 3 and 4 of process_request: read the history within the budget,
\* trim it, and what count_tokens gives for the trimmed list
Context(encoding, rows, max_tokens, reserve_tokens) ==
    LET picked == get_messages_by_tokens(rows, max_tokens)
        messages == [i \in 1..Len(picked) |->
                        LET cost == TrimmerCost(encoding, rows[picked[i]]) IN
                        [id |-> picked[i], cost |-> cost.value,
                         raises |-> cost.kind = "raised"]]
        trimmed == trim_to_fit(messages, max_tokens, reserve_tokens)
        kept == [i \in 1..Len(trimmed.kept) |-> row_dict(rows[trimmed.kept[i].id])]
    IN  [op |-> "context", impl |-> "TokenManager", encoding |-> encoding,
         rows |-> rows, max_tokens |-> max_tokens,
         reserve_tokens |-> reserve_tokens, messages |-> messages,
         trimmed |-> trimmed, result |-> count_tokens(encoding, kept),
         before |-> Counted(0)]

\* A handler assembles the context of a request.
AssembleContext ==
    /\ count_last = << >>
    /\ \E encoding \in BOOLEAN, max_tokens \in 0..MaxBudget,
          reserve_tokens \in ReserveChoices :
          \E rows \in RowLists(encoding) :
             count_last' = <<Context(encoding, rows, max_tokens, reserve_tokens)>>
    /\ UNCHANGED <<trim_last, turn, adapter_calls, prompt_last, format_last,
                   stream_last, request_last,
                   limit_last,
                   auth,
                   trims,
                   throttle>>

\* the limit get_messages_by_tokens passes to its fallback
FallbackLimit == 50

\* the largest number of messages a chat has stored
MaxStored == 52

\* Database.get_recent_messages: the stored messages of a chat are numbered
\* 1..stored by timestamp; ORDER BY timestamp ASC LIMIT limit gives the first
\* `limit` of them, and a failing query gives [].
get_recent_messages(stored, limit, query_fails) ==
    IF query_fails THEN << >>
    ELSE [i \in 1..(IF stored < limit THEN stored ELSE limit) |-> i]

\* get_messages_by_tokens raises inside its try and returns its fallback.
FallBackToRecent ==
    /\ count_last = << >>
    /\ \E stored \in 0..MaxStored, query_fails \in BOOLEAN :
          count_last' =
             <<[op |-> "fallback", impl |-> "Database", encoding |-> FALSE,
                messages |-> << >>, stored |-> stored,
                query_fails |-> query_fails,
                result |-> get_recent_messages(stored, FallbackLimit, query_fails),
                before |-> Counted(0)]>>
    /\ UNCHANGED <<trim_last, turn, adapter_calls, prompt_last, format_last,
                   stream_last, request_last, limit_last,
                   auth,
                   trims,
                   throttle>>

(***************************************************************************)
(* PromptBuilder.build_system_prompt                                       *)
(*                                                                         *)
(* An optional string (str | None) is << >> for None and <<s>> for the     *)
(* string s.                                                               *)
(***************************************************************************)

None == << >>
Str(s) == <<s>>

\* Python truthiness of an optional string: None and "" are falsy
Truthy(v) == v # None /\ v[1] # ""

\* the constructor's default_private_prompt and default_group_prompt
default_private_prompt == Str("PRIVATE_DEFAULT")
default_group_prompt == Str("GROUP_DEFAULT")

\* What the get_active_personality accessor does: it is not configured, it
\* raises, or it returns a persona name.
ActiveOutcomes ==
    {[kind |-> "unset", name |-> ""], [kind |-> "raises", name |-> ""],
     [kind |-> "returns", name |-> "normal"],
     [kind |-> "returns", name |-> "villain"]}

\* What the get_personality_prompt accessor does for the active name: it is
\* not configured, it raises, or it returns None, "" or a stored text.
TextOutcomes ==
    {[kind |-> "unset", text |-> None], [kind |-> "raises", text |-> None],
     [kind |-> "returns", text |-> None], [kind |-> "returns", text |-> Str("")],
     [kind |-> "returns", text |-> Str("Y")]}

\* The per-call custom_system_prompt values
OverrideChoices == {None, Str(""), Str("X")}

\* _current_time_iso: the timestamp in the configured zone, or in the fallback
\* zone when the configured one is unavailable (one of the two resolves)
current_time_iso(zone_available) ==
    IF zone_available THEN "now@Asia/Singapore" ELSE "now@UTC"

Resolved(value, calls, raised) ==
    [value |-> value, calls |-> calls, raised |-> raised]

ResolvePropagates(calls) == Resolved(None, calls, TRUE)

\* except Exception: log, return None
ResolveFailure(calls) == Resolved(None, calls, FALSE)

\* _resolve_group_personality_prompt; calls lists the accessor calls made
resolve_group_personality_prompt(active, text) ==
    IF active.kind = "unset" \/ text.kind = "unset"
    THEN Resolved(None, << >>, FALSE)
    ELSE IF active.kind = "raises"
    THEN ResolveFailure(<<"get_active_personality">>)
    ELSE IF active.name = "normal"
    THEN Resolved(None, <<"get_active_personality">>, FALSE)
    ELSE IF text.kind = "raises"
    THEN ResolveFailure(<<"get_active_personality", "get_personality_prompt">>)
    ELSE IF Truthy(text.text)
    THEN Resolved(text.text,
                  <<"get_active_personality", "get_personality_prompt">>, FALSE)
    ELSE Resolved(None,
                  <<"get_active_personality", "get_personality_prompt">>, FALSE)

OverrideIgnored(custom_system_prompt) == FALSE

\* if custom_system_prompt:
UseOverride(custom_system_prompt) == Truthy(custom_system_prompt)

\* the string f'Current date/time: {now_iso}\n\n"{prompt_body}"'
SystemPrompt(now_iso, prompt_body) ==
    <<"Current date/time: ", now_iso, "\n\n\"", prompt_body[1], "\"">>

\* the persona body of a built system prompt
Body(prompt) == Str(prompt[4])

Built(prompt, calls, raised) ==
    [prompt |-> prompt, calls |-> calls, raised |-> raised]

\* build_system_prompt(is_group, custom_system_prompt)
build_system_prompt(is_group, custom_system_prompt, active, text, zone_available) ==
    LET now_iso == current_time_iso(zone_available) IN
    IF UseOverride(custom_system_prompt)
    THEN Built(SystemPrompt(now_iso, custom_system_prompt), << >>, FALSE)
    ELSE IF is_group
    THEN LET r == resolve_group_personality_prompt(active, text) IN
         IF r.raised THEN Built(<< >>, r.calls, TRUE)
         ELSE Built(SystemPrompt(now_iso,
                        IF Truthy(r.value) THEN r.value ELSE default_group_prompt),
                    r.calls, FALSE)
    ELSE Built(SystemPrompt(now_iso, default_private_prompt), << >>, FALSE)

\* A caller invokes build_system_prompt.
CallBuildSystemPrompt ==
    /\ prompt_last = << >>
    /\ \E is_group \in BOOLEAN, custom_system_prompt \in OverrideChoices,
          active \in ActiveOutcomes, text \in TextOutcomes,
          zone_available \in BOOLEAN :
          prompt_last' = <<[is_group |-> is_group,
                custom_system_prompt |-> custom_system_prompt,
                active |-> active, text |-> text,
                result |-> build_system_prompt(is_group, custom_system_prompt,
                                               active, text, zone_available)]>>
    /\ UNCHANGED <<trim_last, turn, adapter_calls, format_last,
                 count_last, stream_last, request_last,
                   limit_last,
                   auth,
                   trims,
                   throttle>>

(***************************************************************************)
(* Reply context: PromptBuilder.format_reply_context and                   *)
(* combine_with_reply_context                                              *)
(*                                                                         *)
(* A string is the sequence of its pieces; "" is << >>.                    *)
(***************************************************************************)

\* the message replied to: none, or its sender and content
ReplyTargets ==
    {<< >>} \cup {<<[sender_name |-> n, content |-> c]>> :
                    n \in {"Alice"}, c \in {"earlier", "older"}}

\* the user's prompt
Prompts == {<< >>, <<"hi">>}

Whitespace == {"\n\n", " "}

RECURSIVE strip(_)
\* str.strip()
strip(text) ==
    IF text = << >> THEN text
    ELSE IF text[Len(text)] \in Whitespace
    THEN strip(SubSeq(text, 1, Len(text) - 1))
    ELSE IF text[1] \in Whitespace THEN strip(Tail(text))
    ELSE text

\* f'[Context - Replying to {sender_name}]: "{content}"'
format_reply_context(sender_name, content) ==
    <<"[Context - Replying to ", sender_name, "]: \"", content, "\"">>

\* combine_with_reply_context(prompt, reply_context)
combine_with_reply_context(prompt, reply_context) ==
    IF reply_context = << >> THEN prompt
    ELSE strip(reply_context \o <<"\n\n">> \o prompt)

\* A caller prepares a request: the system prompt and the user's prompt
\* with the context of the message it replies to.
CallBuildRequest ==
    /\ request_last = << >>
    /\ \E is_group \in BOOLEAN, custom_system_prompt \in OverrideChoices,
          active \in ActiveOutcomes, text \in TextOutcomes,
          zone_available \in BOOLEAN, reply \in ReplyTargets,
          prompt \in Prompts :
          LET reply_context ==
                IF reply = << >> THEN << >>
                ELSE format_reply_context(reply[1].sender_name, reply[1].content)
          IN  request_last' = <<[is_group |-> is_group,
                custom_system_prompt |-> custom_system_prompt,
                active |-> active, text |-> text, reply |-> reply,
                prompt |-> prompt,
                system |-> build_system_prompt(is_group, custom_system_prompt,
                                               active, text, zone_available),
                user_prompt |-> combine_with_reply_context(prompt, reply_context)]>>
    /\ UNCHANGED <<trim_last, turn, adapter_calls, prompt_last, format_last,
                   count_last, stream_last,
                   limit_last,
                   auth,
                   trims,
                   throttle>>

(***************************************************************************)
(* format_messages                                                         *)
(*                                                                         *)
(* A text is a sequence of characters; a sender name counts as one         *)
(* character.  A message is [role, sender, content]; sender is the         *)
(* sender_name value, "<absent>" when the key is missing and "<None>" when *)
(* it is None.  A content is a string, a list of parts, some other value,  *)
(* or missing.                                                             *)
(***************************************************************************)
MaxTextLen == 1
MaxParts == 2

Texts == UNION {[1..n -> {"[", "a"}] : n \in 0..MaxTextLen}

StrContent(text) == [kind |-> "str", text |-> text, parts |-> << >>]
ListContent(parts) == [kind |-> "list", text |-> << >>, parts |-> parts]
OtherContent == [kind |-> "other", text |-> << >>, parts |-> << >>]
MissingContent == [kind |-> "missing", text |-> << >>, parts |-> << >>]

\* a content part: its "type", its "text" and its "image_url" value, which is
\* a dict with a url, a dict without one, a string, or missing
Part(type, text, shape, url) ==
    [type |-> type, text |-> text, shape |-> shape, url |-> url]

Parts ==
    {Part(t, x, "missing", "") : t \in {"text", "input_text"}, x \in Texts}
    \cup {Part("image_url", << >>, "dict", "u"),
          Part("image_url", << >>, "dict_without_url", ""),
          Part("image_url", << >>, "str", "u"),
          Part("input_image", << >>, "str", "u"),
          Part("input_image", << >>, "dict", "u"),
          Part("audio", << >>, "missing", "")}

Contents ==
    {StrContent(x) : x \in Texts}
    \cup {ListContent(ps) : ps \in UNION {[1..n -> Parts] : n \in 0..MaxParts}}
    \cup {OtherContent, MissingContent}

Msg(role, sender, content) ==
    [role |-> role, sender |-> sender, content |-> content]

Senders == {"<absent>", "<None>", "Bob"}

Msgs == {Msg(r, s, c) : r \in {"user", "assistant"}, s \in Senders, c \in Contents}

\* the lists tried: one arbitrary message, alone or after a plain text message
Preceding ==
    {<< >>, <<Msg("user", "Bob", StrContent(<<"a">>))>>,
     <<Msg("assistant", "<None>", StrContent(<<"a">>))>>}

\* msg.get("sender_name", "Unknown") as it prints in an f-string
sender_name(msg) ==
    IF msg.sender = "<absent>" THEN "Unknown"
    ELSE IF msg.sender = "<None>" THEN "None"
    ELSE msg.sender

NeverStartsWithBracket(text) == FALSE

\* text.startswith("[")
StartsWithBracket(text) == Len(text) > 0 /\ text[1] = "["

\* PromptBuilder._apply_group_sender_prefix; f"[{sender_name}]: {text}"
apply_group_sender_prefix(role, text, name) ==
    IF role # "user" THEN text
    ELSE IF StartsWithBracket(text) THEN text
    ELSE <<"[", name, "]", ":", " ">> \o text

\* the part appended to updated_content for one part, << >> when it is skipped
format_part(part, role, name, is_group) ==
    IF part.type \in {"text", "input_text"}
    THEN <<Part("input_text",
                IF is_group THEN apply_group_sender_prefix(role, part.text, name)
                ELSE part.text,
                "missing", "")>>
    ELSE IF part.type \in {"image_url", "input_image"}
    THEN IF part.type = "image_url"
         THEN <<Part("input_image", << >>, "str",
                     IF part.shape = "dict_without_url" THEN "" ELSE part.url)>>
         ELSE IF part.shape = "missing"
         THEN <<Part("input_image", << >>, "str", "")>>
         ELSE <<Part("input_image", << >>, part.shape, part.url)>>
    ELSE << >>

RECURSIVE format_parts(_, _, _, _)
\* for part in content: ...
format_parts(parts, role, name, is_group) ==
    IF parts = << >> THEN << >>
    ELSE format_part(Head(parts), role, name, is_group)
            \o format_parts(Tail(parts), role, name, is_group)

Formatted(messages, raised) == [messages |-> messages, raised |-> raised]

RECURSIVE format_messages(_, _)
\* PromptBuilder.format_messages(messages, is_group)
format_messages(messages, is_group) ==
    IF messages = << >> THEN Formatted(<< >>, FALSE)
    ELSE LET msg == Head(messages)
             rest == format_messages(Tail(messages), is_group)
             name == sender_name(msg)
         IN  IF msg.content.kind = "missing" THEN Formatted(<< >>, TRUE)
             ELSE IF rest.raised THEN rest
             ELSE IF msg.content.kind = "str"
             THEN Formatted(
                    <<Msg(msg.role, "<absent>",
                          StrContent(IF is_group
                                     THEN apply_group_sender_prefix(
                                            msg.role, msg.content.text, name)
                                     ELSE msg.content.text))>>
                    \o rest.messages, FALSE)
             ELSE IF msg.content.kind = "list"
             THEN Formatted(
                    <<Msg(msg.role, "<absent>",
                          ListContent(format_parts(msg.content.parts, msg.role,
                                                   name, is_group)))>>
                    \o rest.messages, FALSE)
             ELSE rest

RECURSIVE provider_format_messages(_, _)
\* OpenAIProvider.format_messages(messages, is_group): content is passed
\* through, and prefixed for a user message of a group chat (a content that
\* is no string has no startswith: AttributeError)
provider_format_messages(messages, is_group) ==
    IF messages = << >> THEN Formatted(<< >>, FALSE)
    ELSE LET msg == Head(messages)
             rest == provider_format_messages(Tail(messages), is_group)
             prefixed == is_group /\ msg.role = "user"
         IN  IF msg.content.kind = "missing" THEN Formatted(<< >>, TRUE)
             ELSE IF prefixed /\ msg.content.kind # "str"
             THEN Formatted(<< >>, TRUE)
             ELSE IF rest.raised THEN rest
             ELSE Formatted(
                    <<Msg(msg.role, "<absent>",
                          IF prefixed /\ ~StartsWithBracket(msg.content.text)
                          THEN StrContent(<<"[", sender_name(msg), "]", ":", " ">>
                                          \o msg.content.text)
                          ELSE msg.content)>>
                    \o rest.messages, FALSE)

\* the part appended to updated_content by the formatting loop inside
\* OpenAIClient.get_completion
client_format_part(part, role, name, is_group) ==
    IF part.type = "text"
    THEN <<Part("input_text",
                IF is_group /\ role = "user" /\ ~StartsWithBracket(part.text)
                THEN <<"[", name, "]", ":", " ">> \o part.text
                ELSE part.text,
                "missing", "")>>
    ELSE IF part.type = "image_url"
    THEN <<Part("input_image", << >>, "str",
                IF part.shape = "dict_without_url" THEN "" ELSE part.url)>>
    ELSE <<part>>

RECURSIVE client_format_parts(_, _, _, _)
\* for part in content: ...
client_format_parts(parts, role, name, is_group) ==
    IF parts = << >> THEN << >>
    ELSE client_format_part(Head(parts), role, name, is_group)
            \o client_format_parts(Tail(parts), role, name, is_group)

RECURSIVE client_format_messages(_, _)
\* the formatting loop of OpenAIClient.get_completion
client_format_messages(messages, is_group) ==
    IF messages = << >> THEN Formatted(<< >>, FALSE)
    ELSE LET msg == Head(messages)
             rest == client_format_messages(Tail(messages), is_group)
             name == sender_name(msg)
         IN  IF msg.content.kind = "missing" THEN Formatted(<< >>, TRUE)
             ELSE IF rest.raised THEN rest
             ELSE IF msg.content.kind = "str"
             THEN Formatted(
                    <<Msg(msg.role, "<absent>",
                          IF is_group /\ msg.role = "user"
                                /\ ~StartsWithBracket(msg.content.text)
                          THEN StrContent(<<"[", name, "]", ":", " ">>
                                          \o msg.content.text)
                          ELSE msg.content)>>
                    \o rest.messages, FALSE)
             ELSE IF msg.content.kind = "list"
             THEN Formatted(
                    <<Msg(msg.role, "<absent>",
                          ListContent(client_format_parts(msg.content.parts,
                                          msg.role, name, is_group)))>>
                    \o rest.messages, FALSE)
             ELSE rest

\* the formatting of an implementation
FormatWith(impl, messages, is_group) ==
    IF impl = "PromptBuilder" THEN format_messages(messages, is_group)
    ELSE IF impl = "OpenAIProvider"
    THEN provider_format_messages(messages, is_group)
    ELSE client_format_messages(messages, is_group)

\* format applied to its own output; an exception of the first call propagates
FormatTwice(impl, messages, is_group) ==
    LET once == FormatWith(impl, messages, is_group)
    IN  IF once.raised THEN once
        ELSE FormatWith(impl, once.messages, is_group)

FormatCall(impl, messages, is_group) ==
    [impl |-> impl, messages |-> messages, is_group |-> is_group,
     once |-> FormatWith(impl, messages, is_group),
     twice |-> FormatTwice(impl, messages, is_group)]

\* A caller formats a message list with PromptBuilder.format_messages and
\* formats the result again (a retried call).
CallFormatMessages ==
    /\ format_last = << >>
    /\ \E p \in Preceding, m \in Msgs, is_group \in BOOLEAN :
          format_last' = <<FormatCall("PromptBuilder", p \o <<m>>, is_group)>>
    /\ UNCHANGED <<trim_last, turn, adapter_calls, prompt_last,
                 count_last, stream_last, request_last,
                   limit_last,
                   auth,
                   trims,
                   throttle>>

\* The same with a provider's format_messages.
CallProviderFormatMessages ==
    /\ format_last = << >>
    /\ \E p \in Preceding, m \in Msgs, is_group \in BOOLEAN :
          format_last' = <<FormatCall("OpenAIProvider", p \o <<m>>, is_group)>>
    /\ UNCHANGED <<trim_last, turn, adapter_calls, prompt_last,
                 count_last, stream_last, request_last,
                   limit_last,
                   auth,
                   trims,
                   throttle>>

\* The same with the formatting loop of OpenAIClient.get_completion.
CallClientFormatMessages ==
    /\ format_last = << >>
    /\ \E p \in Preceding, m \in Msgs, is_group \in BOOLEAN :
          format_last' = <<FormatCall("OpenAIClient", p \o <<m>>, is_group)>>
    /\ UNCHANGED <<trim_last, turn, adapter_calls, prompt_last,
                   count_last, stream_last, request_last,
                   limit_last,
                   auth,
                   trims,
                   throttle>>

(***************************************************************************)
(* Provider adapters: get_completion                                       *)
(*                                                                         *)
(* A message shown to the user is [glyph, template, timeout, detail]: the  *)
(* first character, the fixed wording, and the interpolated timeout and    *)
(* raw exception text (0 and "" when the wording has none).                *)
(***************************************************************************)

CROSS == "cross mark"
TIMER == "stopwatch"

Text(glyph, template, timeout, detail) ==
    [glyph |-> glyph, template |-> template, timeout |-> timeout,
     detail |-> detail]

\* the completions a backend returns: empty, plain, or starting with one of
\* the two glyphs
Replies ==
    {Text("", "", 0, ""), Text("a", "<reply>", 0, ""),
     Text(CROSS, "<reply>", 0, "")}

Providers == {"OpenAIProvider", "GeminiProvider", "GroqProvider", "OpenAIClient"}

\* the configured timeout (seconds)
TimeoutChoices == {30, 60}

\* the failure kinds of the error taxonomy
FailureKinds ==
    {"invalid_credentials", "rate_limited", "timed_out", "context_too_large",
     "network_unreachable", "backend_internal_error", "unknown"}

\* The exception class the SDK raises for a failure kind.
ClassesOf(kind) ==
    CASE kind = "invalid_credentials" -> {"AuthenticationError"}
      [] kind = "rate_limited" -> {"RateLimitError"}
      [] kind = "timed_out" -> {"APITimeoutError"}
      [] kind = "context_too_large" -> {"BadRequestError"}
      [] kind = "network_unreachable" -> {"APIConnectionError"}
      [] kind = "backend_internal_error" -> {"InternalServerError"}
      [] OTHER -> {"BadRequestError", "Exception"}

\* The keywords str(e).lower() contains for a failure kind: each kind's
\* message names the kind the way the adapter's own test expects it.
WordsOf(provider, kind) ==
    CASE kind = "invalid_credentials" -> {{"api key"}, {"authentication"}}
      [] kind = "rate_limited" ->
            IF provider = "GeminiProvider" THEN {{"rate limit"}, {"quota"}}
            ELSE {{"rate limit"}}
      [] kind = "timed_out" -> {{"timeout"}}
      [] kind = "context_too_large" -> {{"context_length_exceeded", "context"}}
      [] kind = "network_unreachable" -> {{"connection"}, {"network"}}
      [] OTHER -> {{}}

\* the raw texts of exceptions
RawTexts == {"e1", "e2"}

Outcome(stage, kind, cls, words, raw, reply) ==
    [stage |-> stage, kind |-> kind, cls |-> cls, words |-> words, raw |-> raw,
     reply |-> reply]

\* the backend call raises: an exception of the class and with the words
\* of its failure kind
BackendFailures(provider) ==
    UNION {{Outcome("backend", k, c, w, t, Text("", "", 0, "")) :
                c \in ClassesOf(k), w \in WordsOf(provider, k), t \in RawTexts} :
           k \in FailureKinds}

\* What one get_completion call meets: a message that cannot be formatted
\* (KeyError, AttributeError), a backend failure, a response without content
\* (len(None): TypeError), or a completion.
Outcomes(provider) ==
    {Outcome("format", "unknown", c, {}, t, Text("", "", 0, "")) :
        c \in {"KeyError", "AttributeError"}, t \in RawTexts}
    \cup BackendFailures(provider)
    \cup {Outcome("response", "unknown", "TypeError", {}, "e1", Text("", "", 0, ""))}
    \cup {Outcome("ok", "none", "none", {}, "", r) : r \in Replies}

\* isinstance(e, cls): APITimeoutError derives from APIConnectionError
IsInstance(e, cls) ==
    \/ e.cls = cls
    \/ e.cls = "APITimeoutError" /\ cls = "APIConnectionError"

Returned(text) == [kind |-> "returned", text |-> text]
Raised == [kind |-> "raised", text |-> Text("", "", 0, "")]

openai_uncaught(e) == Raised

\* except Exception as e: the generic message
openai_unexpected(e) ==
    Returned(Text(CROSS, "An unexpected error occurred. Please try again or contact support.", 0, ""))

\* the except clauses of OpenAIProvider.get_completion (and, with the same
\* wording, of OpenAIClient.get_completion), in their order
openai_except(e, timeout) ==
    IF IsInstance(e, "AuthenticationError")
    THEN Returned(Text(CROSS, "OpenAI API key is invalid. Please check your configuration.", 0, ""))
    ELSE IF IsInstance(e, "RateLimitError")
    THEN Returned(Text(TIMER, "Rate limit exceeded. Please wait a moment and try again.", 0, ""))
    ELSE IF IsInstance(e, "APITimeoutError")
    THEN Returned(Text(TIMER, "Request timed out after {timeout}s. Please try again.", timeout, ""))
    ELSE IF IsInstance(e, "BadRequestError")
    THEN IF "context_length_exceeded" \in e.words
         THEN Returned(Text(CROSS, "Message history is too long for the model. Use /clear to clear history and try again.", 0, ""))
         ELSE Returned(Text(CROSS, "Invalid request: {error_msg}", 0, e.raw))
    ELSE IF IsInstance(e, "APIConnectionError")
    THEN Returned(Text(CROSS, "Network error connecting to OpenAI. Please check your internet connection.", 0, ""))
    ELSE IF IsInstance(e, "InternalServerError")
    THEN Returned(Text(CROSS, "OpenAI service is experiencing issues. Please try again in a moment.", 0, ""))
    ELSE openai_unexpected(e)

\* except Exception as e of GeminiProvider.get_completion
gemini_except(e, timeout) ==
    IF "api key" \in e.words \/ "authentication" \in e.words
    THEN Returned(Text(CROSS, "Gemini API key is invalid. Please check your configuration.", 0, ""))
    ELSE IF "quota" \in e.words \/ "rate limit" \in e.words
    THEN Returned(Text(TIMER, "Rate limit exceeded. Please wait a moment and try again.", 0, ""))
    ELSE IF "timeout" \in e.words
    THEN Returned(Text(TIMER, "Request timed out after {timeout}s. Please try again.", timeout, ""))
    ELSE IF "context" \in e.words \/ "too long" \in e.words
    THEN Returned(Text(CROSS, "Message history is too long for the model. Use /clear to clear history and try again.", 0, ""))
    ELSE Returned(Text(CROSS, "Gemini API error: {str(e)}", 0, e.raw))

\* except Exception as e of GroqProvider.get_completion
groq_except(e, timeout) ==
    IF "authentication" \in e.words \/ "api key" \in e.words
    THEN Returned(Text(CROSS, "Groq API key is invalid. Please check your configuration.", 0, ""))
    ELSE IF "rate limit" \in e.words
    THEN Returned(Text(TIMER, "Rate limit exceeded. Please wait a moment and try again.", 0, ""))
    ELSE IF "timeout" \in e.words
    THEN Returned(Text(TIMER, "Request timed out after {timeout}s. Please try again.", timeout, ""))
    ELSE IF "context" \in e.words \/ "too long" \in e.words
    THEN Returned(Text(CROSS, "Message history is too long for the model. Use /clear to clear history and try again.", 0, ""))
    ELSE IF "connection" \in e.words \/ "network" \in e.words
    THEN Returned(Text(CROSS, "Network error connecting to Groq. Please check your internet connection.", 0, ""))
    ELSE Returned(Text(CROSS, "Groq API error: {str(e)}", 0, e.raw))

\* get_completion: the try body (format, backend call, read the response)
\* and the except clauses of the adapter
get_completion(provider, timeout, o) ==
    IF o.stage = "ok" THEN Returned(o.reply)
    ELSE IF provider \in {"OpenAIProvider", "OpenAIClient"}
    THEN openai_except(o, timeout)
    ELSE IF provider = "GeminiProvider" THEN gemini_except(o, timeout)
    ELSE groq_except(o, timeout)

\* A caller awaits get_completion of an adapter.
CallGetCompletion ==
    /\ adapter_calls = << >>
    /\ \E provider \in Providers, timeout \in TimeoutChoices :
          \E o \in Outcomes(provider) :
             adapter_calls' = <<[provider |-> provider, timeout |-> timeout,
                   outcome |-> o,
                   result |-> get_completion(provider, timeout, o)]>>
    /\ UNCHANGED <<trim_last, turn, prompt_last, format_last,
                 count_last, stream_last, request_last,
                   limit_last,
                   auth,
                   trims,
                   throttle>>

\* The adapters that carry a MODEL_LIMITS table.
LimitProviders == {"OpenAIProvider", "GeminiProvider", "GroqProvider"}

\* MODEL_LIMITS of each adapter: the context window of the models it knows.
MODEL_LIMITS(provider) ==
    CASE provider = "OpenAIProvider" ->
           [m \in {"gpt-4o-mini", "gpt-4o", "gpt-3.5-turbo", "gpt-4-turbo",
                   "gpt-4"} |->
              CASE m = "gpt-3.5-turbo" -> 16385
                [] m = "gpt-4" -> 8192
                [] OTHER -> 128000]
      [] provider = "GeminiProvider" ->
           [m \in {"gemini-2.5-flash-preview-09-2025",
                   "gemini-2.5-flash-lite-preview-09-2025",
                   "gemini-1.5-pro", "gemini-1.5-flash"} |->
              CASE m = "gemini-1.5-pro" -> 2097152
                [] m = "gemini-1.5-flash" -> 1048576
                [] OTHER -> 200000]
      [] provider = "GroqProvider" ->
           [m \in {"openai/gpt-oss-120b", "llama-3.3-70b-versatile",
                   "llama-3.1-8b-instant", "mixtral-8x7b-32768",
                   "llama-3.1-70b-versatile"} |->
              CASE m = "mixtral-8x7b-32768" -> 32768
                [] OTHER -> 128000]

\* Model names an adapter can be constructed with: those of every table and
\* two that no table lists.
ModelNames ==
    UNION {DOMAIN MODEL_LIMITS(p) : p \in LimitProviders}
        \cup {"gpt-5", "unlisted-model"}

\* get_max_context_tokens: MODEL_LIMITS.get(model, default).
get_max_context_tokens(provider, model) ==
    IF model \in DOMAIN MODEL_LIMITS(provider)
    THEN MODEL_LIMITS(provider)[model]
    ELSE CASE provider = "OpenAIProvider" -> 8000
           [] provider = "GeminiProvider" -> 1000000
           [] provider = "GroqProvider" -> 32768

\* A caller asks an adapter, constructed for some model, for its context
\* window.
CallGetMaxContextTokens ==
    /\ limit_last = << >>
    /\ \E provider \in LimitProviders, model \in ModelNames :
          limit_last' = <<[provider |-> provider, model |-> model,
                           result |-> get_max_context_tokens(provider, model)]>>
    /\ UNCHANGED <<trim_last, turn, adapter_calls, prompt_last, format_last,
                   count_last, stream_last, request_last,
                   auth,
                   trims,
                   throttle>>

(***************************************************************************)
(* Request handlers: process_request, process_image_request and            *)
(* ChatCLI.process_message                                                 *)
(*                                                                         *)
(* turn.pc is the handler's position, turn.history the stored messages of  *)
(* the chat, turn.events what the running turn has done so far.            *)
(***************************************************************************)

MaxTurns == 2

BotPaths == {"process_request", "process_image_request"}

\* ChatCLI.process_message with is_test_mode set and not set
CliPaths == {"process_message_test", "process_message"}

Paths == BotPaths \cup CliPaths

\* text.startswith(("cross mark", "stopwatch"))
IsErrorText(text) == text.glyph \in {CROSS, TIMER}

\* truthiness of a str
NonEmpty(text) == text.glyph # ""

EmptyText == Text("", "", 0, "")

\* the error strings of the streaming client: the adapter's wording
StreamErrorTexts ==
    {get_completion("OpenAIClient", t, o).text :
        t \in TimeoutChoices, o \in BackendFailures("OpenAIClient")}

\* get_error_message_for_user(stream_err): a tagged error string
get_error_message_for_user == StreamErrorTexts

\* How openai_client.stream_completion ends: exhausted with a last non-empty
\* snapshot (or none), an error snapshot, or an exception.
stream_completion ==
    {[end |-> "exhausted", last |-> r] :
        r \in {EmptyText, Text("a", "<reply>", 0, "")}}
    \cup {[end |-> "error_snapshot", last |-> e] : e \in StreamErrorTexts}
    \cup {[end |-> "raised", last |-> EmptyText]}

\* What one stream_response_to_user call meets: the placeholder reply fails
\* (before the stream is opened), or the stream runs; an edit may answer
\* too_long.
StreamOutcomes ==
    {[end |-> "placeholder_failed", last |-> EmptyText, too_long |-> FALSE]}
    \cup {[end |-> o.end, last |-> o.last, too_long |-> tl] :
            o \in stream_completion, tl \in BOOLEAN}

\* stream_response_to_user: the text it returns
stream_response_to_user(o, error_msg) ==
    IF o.end = "raised" THEN error_msg
    ELSE IF o.end = "exhausted" /\ o.too_long /\ NonEmpty(o.last)
    THEN Text(o.last.glyph, "<reply>(truncated...)", 0, "")
    ELSE o.last

Stored(role, n, text) == [role |-> role, turn |-> n, text |-> text]

TurnState(pc, path, history, events, response, ended, turns) ==
    [pc |-> pc, path |-> path, history |-> history, events |-> events,
     response |-> response, ended |-> ended, turns |-> turns]

TurnIdle == TurnState("idle", "none", << >>, << >>, EmptyText, "none", 0)

Has(events, e) == \E i \in 1..Len(events) : events[i] = e

\* except Exception as e: the handler answers with an apology (the CLI
\* returns an error string) and the turn is over
handler_except(t, event) ==
    [t EXCEPT !.pc = "done", !.events = Append(Append(@, event), "apology")]

handler_continues(t, event) ==
    [t EXCEPT !.pc = "call", !.events = Append(@, event)]

\* db.add_message for the user's message raised
user_store_failed(t, event) == handler_except(t, event)

\* A message arrives: a handler starts a turn.
StartTurn ==
    /\ turn.pc \in {"idle", "done"}
    /\ turn.turns < MaxTurns
    /\ \E path \in Paths :
          turn' = TurnState(
              IF path = "process_image_request" THEN "download" ELSE "store_user",
              path, turn.history, << >>, EmptyText, "none", turn.turns + 1)
    /\ UNCHANGED <<trim_last, adapter_calls, prompt_last, format_last,
                 count_last, stream_last, request_last,
                   limit_last,
                   auth,
                   trims,
                   throttle>>

\* process_image_request: download the photo
DownloadImage ==
    /\ turn.pc = "download"
    /\ \E ok \in BOOLEAN :
          turn' = IF ok THEN [turn EXCEPT !.pc = "store_user"]
                  ELSE handler_except(turn, "download_failed")
    /\ UNCHANGED <<trim_last, adapter_calls, prompt_last, format_last,
                 count_last, stream_last, request_last,
                   limit_last,
                   auth,
                   trims,
                   throttle>>

\* db.add_message(role="user", ...), then the history is read and trimmed;
\* the CLI outside test mode stores nothing and appends the message in
\* memory.
StoreUserMessage ==
    /\ turn.pc = "store_user"
    /\ IF turn.path = "process_message"
       THEN turn' = [turn EXCEPT !.pc = "call"]
       ELSE \E ok \in BOOLEAN :
          turn' = IF ok
                  THEN [turn EXCEPT !.pc = "call",
                          !.history = Append(@, Stored("user", turn.turns,
                                                 Text("u", "<prompt>", 0, ""))),
                          !.events = Append(@, "user_stored")]
                  ELSE user_store_failed(turn, "user_store_failed")
    /\ UNCHANGED <<trim_last, adapter_calls, prompt_last, format_last,
                 count_last, stream_last, request_last,
                   limit_last,
                   auth,
                   trims,
                   throttle>>

\* response = await stream_response_to_user(...)
StreamResponseToUser ==
    /\ turn.pc = "call"
    /\ turn.path \in BotPaths
    /\ \E o \in StreamOutcomes, error_msg \in get_error_message_for_user :
          turn' = IF o.end = "placeholder_failed"
                  THEN handler_except(turn, "placeholder_failed")
                  ELSE [turn EXCEPT !.pc = "store_assistant",
                          !.events = Append(@, "provider_call"),
                          !.response = stream_response_to_user(o, error_msg),
                          !.ended = IF o.end = "exhausted" THEN "text"
                                    ELSE "error"]
    /\ UNCHANGED <<trim_last, adapter_calls, prompt_last, format_last,
                 count_last, stream_last, request_last,
                   limit_last,
                   auth,
                   trims,
                   throttle>>

\* response = await self.openai_client.get_completion(...)
CliGetCompletion ==
    /\ turn.pc = "call"
    /\ turn.path \in CliPaths
    /\ \E timeout \in TimeoutChoices, o \in Outcomes("OpenAIClient") :
          turn' = [turn EXCEPT !.pc = "store_assistant",
                      !.events = Append(@, "provider_call"),
                      !.response = get_completion("OpenAIClient", timeout, o).text,
                      !.ended = IF o.stage = "ok" THEN "text" ELSE "error"]
    /\ UNCHANGED <<trim_last, adapter_calls, prompt_last, format_last,
                 count_last, stream_last, request_last,
                   limit_last,
                   auth,
                   trims,
                   throttle>>

\* the condition under which a handler stores the assistant's response
stores_response(path, response) ==
    IF path \in BotPaths
    THEN NonEmpty(response) /\ ~IsErrorText(response)
    ELSE path = "process_message_test"

\* db.add_message(role="assistant", ...) where the handler stores it
StoreAssistantMessage ==
    /\ turn.pc = "store_assistant"
    /\ IF stores_response(turn.path, turn.response)
       THEN \E ok \in BOOLEAN :
          turn' = IF ok
                  THEN [turn EXCEPT !.pc = "done",
                          !.history = Append(@, Stored("assistant", turn.turns,
                                                 turn.response)),
                          !.events = Append(@, "assistant_stored")]
                  ELSE handler_except(turn, "assistant_store_failed")
       ELSE turn' = [turn EXCEPT !.pc = "done"]
    /\ UNCHANGED <<trim_last, adapter_calls, prompt_last, format_last,
                 count_last, stream_last, request_last,
                   limit_last,
                   auth,
                   trims,
                   throttle>>

(***************************************************************************)
(* stream_response_to_user: the loop over the snapshots of the stream      *)
(***************************************************************************)

MaxSnapshots == 2

\* bot_msg = await message.reply_text("...")
Placeholder == Text(".", "...", 0, "")

\* the snapshots a stream yields: empty, the placeholder's text, a reply, a
\* longer reply, an error message
Snapshots ==
    {EmptyText, Placeholder, Text("a", "<reply>", 0, ""),
     Text("a", "<reply><more>", 0, ""), Text(CROSS, "<error>", 0, "")}

\* what safe_edit_message answers
EditResults == {"ok", "not_modified", "retry", "too_long", "failed"}

\* success of (success, error) = await safe_edit_message(...)
Success(result) == result \in {"ok", "not_modified"}

\* one iteration: the snapshot, whether the throttle lets an edit through
\* (time_delta > 0.8 and char_delta > 20), and the answer to that edit
StreamSteps ==
    {[snap |-> x, due |-> FALSE, edit |-> "none"] : x \in Snapshots}
    \cup {[snap |-> x, due |-> TRUE, edit |-> e] :
            x \in Snapshots, e \in EditResults}

StepSeqs == UNION {[1..n -> StreamSteps] : n \in 0..MaxSnapshots}

Edit(text, result) == [text |-> text, result |-> result]

\* current_text[:4000] + "\n\n(truncated...)"
Truncated(text) == Text(text.glyph, "<reply>(truncated...)", 0, "")

LoopState(current_text, last_edit_text, edits, broke, consumed) ==
    [current_text |-> current_text, last_edit_text |-> last_edit_text,
     edits |-> edits, broke |-> broke, consumed |-> consumed]

\* the body of `async for streamed_text in ...` for one snapshot
loop_body(st, step) ==
    LET got == [st EXCEPT !.consumed = @ + 1] IN
    IF ~NonEmpty(step.snap) THEN got
    ELSE LET cur == [got EXCEPT !.current_text = step.snap] IN
         IF IsErrorText(step.snap) THEN [cur EXCEPT !.broke = "error_snapshot"]
         ELSE IF step.due /\ step.snap # st.last_edit_text
         THEN LET tried == [cur EXCEPT !.edits =
                                Append(@, Edit(step.snap, step.edit))]
              IN  IF Success(step.edit)
                  THEN [tried EXCEPT !.last_edit_text = step.snap]
                  ELSE IF step.edit = "too_long"
                  THEN [tried EXCEPT
                          !.current_text = Truncated(step.snap),
                          !.edits = Append(@, Edit(Truncated(step.snap),
                                                   "ignored")),
                          !.broke = "too_long"]
                  ELSE tried
         ELSE cur

RECURSIVE consume(_, _, _)
\* the loop: it ends when the stream is exhausted or at a break
consume(steps, i, st) ==
    IF i > Len(steps) \/ st.broke # "none" THEN st
    ELSE consume(steps, i + 1, loop_body(st, steps[i]))

NoFinalEdit(current_text, last_edit_text) == FALSE

\* if current_text and current_text != last_edit_text:
NeedsFinalEdit(current_text, last_edit_text) ==
    NonEmpty(current_text) /\ current_text # last_edit_text

\* stream_response_to_user after the placeholder was sent: the loop, the
\* final edit and the returned text; end says whether the stream, if the
\* loop did not break, is exhausted or raises
run_stream(steps, end, error_msg) ==
    LET st == consume(steps, 1, LoopState(EmptyText, Placeholder, << >>,
                                          "none", 0))
        ended == IF st.broke # "none" THEN st.broke ELSE end
    IN  IF ended = "raised"
        THEN [ended |-> ended, loop |-> st, final |-> << >>,
              edits |-> Append(st.edits, Edit(error_msg, "ignored")),
              returned |-> error_msg]
        ELSE IF NeedsFinalEdit(st.current_text, st.last_edit_text)
        THEN [ended |-> ended, loop |-> st, final |-> <<st.current_text>>,
              edits |-> Append(st.edits, Edit(st.current_text, "ignored")),
              returned |-> st.current_text]
        ELSE [ended |-> ended, loop |-> st, final |-> << >>,
              edits |-> st.edits, returned |-> st.current_text]

\* stream_response_to_user runs on one stream.
RunStream ==
    /\ stream_last = << >>
    /\ \E steps \in StepSeqs, end \in {"exhausted", "raised"} :
          stream_last' = <<[steps |-> steps, end |-> end,
                result |-> run_stream(steps, end,
                                      Text(CROSS, "<error message>", 0, ""))]>>
    /\ UNCHANGED <<trim_last, turn, adapter_calls, prompt_last, format_last,
                   count_last, request_last,
                   limit_last,
                   auth,
                   trims,
                   throttle>>

(***************************************************************************)
(* stream_response_to_user: the throttle of the edits                      *)
(*                                                                         *)
(* Times are in tenths of a second, texts are seen by their length.        *)
(***************************************************************************)

MaxChunks == 3

\* time that passes until the next snapshot arrives
Delays == {8, 9, 19}

\* characters a snapshot adds to the one before
Growths == {20, 21, 24}

\* e.retry_after of RetryAfter: 1 s and 2 s
RetryChoices == {10, 20}

\* what the sink answers to an edit: the result and, for "retry", the delay
EditAnswers ==
    {[result |-> e, retry_after |-> 0] : e \in EditResults \ {"retry"}}
    \cup {[result |-> "retry", retry_after |-> r] : r \in RetryChoices}

\* if time_delta > 0.8 and char_delta > 20 and current_text != last_edit_text
throttle_due(now, last_edit_time, current_len, last_edit_len) ==
    /\ now - last_edit_time > 8
    /\ current_len - last_edit_len > 20
    /\ current_len # last_edit_len

NoBackoff(now, retry_after) == now

\* last_edit_time = now + retry_after
backoff(now, retry_after) == now + retry_after

\* len(current_text[:4000] + "\n\n(truncated...)")
truncated_len(current_len) ==
    (IF current_len < 4000 THEN current_len ELSE 4000) + 16

\* an edit attempt: which statement made it, when, and what it knew
Attempt(kind, time, len, last_edit_len, answer, previous, blocked_until) ==
    [kind |-> kind, time |-> time, len |-> len, last_edit_len |-> last_edit_len,
     answer |-> answer, previous |-> previous, blocked_until |-> blocked_until]

\* pc, the clock, the locals of the function (texts by their length), and
\* history: the attempts of the last step, the time of the latest attempt
\* (-1: none yet) and the time until which a RetryAfter asked to wait
ThrottleState(pc, now, last_edit_time, current_len, last_edit_len, chunks, attempts, latest, blocked_until) ==
    [pc |-> pc, now |-> now, last_edit_time |-> last_edit_time,
     current_len |-> current_len, last_edit_len |-> last_edit_len,
     chunks |-> chunks, attempts |-> attempts, latest |-> latest,
     blocked_until |-> blocked_until]

ThrottleIdle == ThrottleState("idle", 0, 0, 0, 0, 0, << >>, -1, 0)

\* The placeholder "..." is sent and the loop is entered; time.time() is far
\* from 0.
BeginStream ==
    /\ throttle.pc = "idle"
    /\ throttle' = ThrottleState("loop", 100, 0, 0, 3, 0, << >>, -1, 0)
    /\ UNCHANGED <<trim_last, turn, adapter_calls, prompt_last, format_last,
                   count_last, stream_last, request_last, limit_last, auth,
                   trims>>

\* The loop body for one snapshot: an empty one, an error message, or text.
OnSnapshot ==
    /\ throttle.pc = "loop"
    /\ throttle.chunks < MaxChunks
    /\ \E kind \in {"empty", "error", "text"}, delay \in Delays,
          growth \in Growths, answer \in EditAnswers :
          LET t == throttle
              now == t.now + delay
              len == t.current_len + growth
              got == [t EXCEPT !.now = now, !.chunks = @ + 1,
                               !.attempts = << >>]
              first == Attempt("snapshot", now, len, t.last_edit_len, answer,
                               t.latest, t.blocked_until)
              tried == [got EXCEPT !.current_len = len,
                                   !.last_edit_time = now,
                                   !.attempts = <<first>>, !.latest = now]
          IN  throttle' =
                IF kind = "empty" THEN got
                ELSE IF kind = "error"
                THEN [got EXCEPT !.current_len = len, !.pc = "after_loop"]
                ELSE IF ~throttle_due(now, t.last_edit_time, len, t.last_edit_len)
                THEN [got EXCEPT !.current_len = len]
                ELSE IF Success(answer.result)
                THEN [tried EXCEPT !.last_edit_len = len]
                ELSE IF answer.result = "retry"
                THEN [tried EXCEPT
                        !.last_edit_time = backoff(now, answer.retry_after),
                        !.blocked_until = now + answer.retry_after + 8]
                ELSE IF answer.result = "too_long"
                THEN [tried EXCEPT
                        !.current_len = truncated_len(len),
                        !.attempts = <<first,
                            Attempt("truncated", now, truncated_len(len),
                                    t.last_edit_len,
                                    [result |-> "ignored", retry_after |-> 0],
                                    now, t.blocked_until)>>,
                        !.pc = "after_loop"]
                ELSE tried
    /\ UNCHANGED <<trim_last, turn, adapter_calls, prompt_last, format_last,
                   count_last, stream_last, request_last, limit_last, auth,
                   trims>>

\* The stream is exhausted.
EndOfStream ==
    /\ throttle.pc = "loop"
    /\ throttle' = [throttle EXCEPT !.pc = "after_loop", !.attempts = << >>]
    /\ UNCHANGED <<trim_last, turn, adapter_calls, prompt_last, format_last,
                   count_last, stream_last, request_last, limit_last, auth,
                   trims>>

\* After the loop: the final edit, and the return.
FinalEdit ==
    /\ throttle.pc = "after_loop"
    /\ LET t == throttle IN
       throttle' =
          IF t.current_len > 0 /\ t.current_len # t.last_edit_len
          THEN [t EXCEPT !.pc = "done", !.latest = t.now,
                         !.attempts = <<Attempt("final", t.now, t.current_len,
                                 t.last_edit_len,
                                 [result |-> "ignored", retry_after |-> 0],
                                 t.latest, t.blocked_until)>>]
          ELSE [t EXCEPT !.pc = "done", !.attempts = << >>]
    /\ UNCHANGED <<trim_last, turn, adapter_calls, prompt_last, format_last,
                   count_last, stream_last, request_last, limit_last, auth,
                   trims>>

(***************************************************************************)
(* Authorization: is_authorized, message_handler, photo_handler,           *)
(* grant_command, revoke_command and the granted_users table               *)
(*                                                                         *)
(* The application handles one update at a time, so a handler is one step. *)
(***************************************************************************)

MaxUser == 3

\* Telegram user ids
Users == 1..MaxUser

\* int(config.AUTHORIZED_USER_ID)
Main == 1

\* context.args[0] of a command: absent, a word that is no number, or a
\* number (0 stands for the numbers that are not positive)
NoArg == [kind |-> "none", id |-> 0]
WordArg == [kind |-> "word", id |-> 0]
NumberArg(n) == [kind |-> "number", id |-> n]

CommandArgs == {NoArg, WordArg} \cup {NumberArg(n) : n \in 0..MaxUser}

LookupFailureGrants(granted, user_id, lookup_fails) ==
    lookup_fails \/ user_id \in granted

\* Database.is_user_granted: a failing lookup answers False
is_user_granted(granted, user_id, lookup_fails) ==
    IF lookup_fails THEN FALSE ELSE user_id \in granted

is_authorized(granted, user_id, lookup_fails) ==
    IF user_id = Main THEN TRUE
    ELSE is_user_granted(granted, user_id, lookup_fails)

AnySenderIsMain(user_id) == TRUE

is_main_authorized_user(user_id) == user_id = Main

\* What message_handler and photo_handler do with a message: photo_handler
\* has no step for a group message without keyword and none for an empty
\* prompt.  "processed" is the call of process_request or
\* process_image_request, the only callers of the provider.
handle_message(granted, kind, sender, is_group, has_keyword, has_prompt, lookup_fails) ==
    IF kind = "text" /\ is_group /\ ~has_keyword THEN "stored_for_context"
    ELSE IF ~has_keyword THEN "ignored"
    ELSE IF ~is_authorized(granted, sender, lookup_fails) THEN "no_access"
    ELSE IF kind = "text" /\ ~has_prompt THEN "ask_request"
    ELSE "processed"

\* grant_command and revoke_command up to the database call: the reply that
\* ends the command early, or "database"
command_checks(sender, arg) ==
    IF ~is_main_authorized_user(sender) THEN "only_main"
    ELSE IF arg.kind = "none" THEN "usage"
    ELSE IF arg.kind = "word" THEN "not_numeric"
    ELSE IF arg.id <= 0 THEN "not_positive"
    ELSE IF arg.id = Main THEN "is_main"
    ELSE "database"

\* Database.grant_access and revoke_access: the table after the call; a
\* failing call raises and leaves the table as it was
grant_access(granted, user_id, db_fails) ==
    IF db_fails THEN granted ELSE granted \cup {user_id}

revoke_access(granted, user_id, db_fails) ==
    IF db_fails THEN granted ELSE granted \ {user_id}

\* granted: the granted_users table.  revoked: the users the main user has
\* revoked and not granted since (a history variable).  last: the update
\* handled last.
AuthState(granted, revoked, last) ==
    [granted |-> granted, revoked |-> revoked, last |-> last]

AuthIdle == AuthState({}, {}, [op |-> "none"])

\* message_handler or photo_handler handles a message.
HandleMessage ==
    /\ \E kind \in {"text", "photo"}, sender \in Users,
          is_group \in BOOLEAN, has_keyword \in BOOLEAN,
          has_prompt \in BOOLEAN, lookup_fails \in BOOLEAN :
          auth' = [auth EXCEPT !.last =
                     [op |-> kind, sender |-> sender, is_group |-> is_group,
                      has_keyword |-> has_keyword, lookup_fails |-> lookup_fails,
                      granted_before |-> auth.granted,
                      revoked_before |-> auth.revoked,
                      outcome |-> handle_message(auth.granted, kind, sender,
                                     is_group, has_keyword, has_prompt,
                                     lookup_fails)]]
    /\ UNCHANGED <<trim_last, turn, adapter_calls, prompt_last, format_last,
                   count_last, stream_last, request_last, limit_last,
                   trims,
                   throttle>>

\* grant_command handles /grant.
GrantCommand ==
    /\ \E sender \in Users, arg \in CommandArgs, db_fails \in BOOLEAN :
          LET checks == command_checks(sender, arg)
              to_db == checks = "database"
          IN  auth' = AuthState(
                 IF to_db THEN grant_access(auth.granted, arg.id, db_fails)
                 ELSE auth.granted,
                 IF to_db THEN auth.revoked \ {arg.id} ELSE auth.revoked,
                 [op |-> "grant", sender |-> sender, arg |-> arg,
                  granted_before |-> auth.granted,
                  revoked_before |-> auth.revoked,
                  outcome |-> IF ~to_db THEN checks
                              ELSE IF db_fails THEN "failed"
                              ELSE IF arg.id \in auth.granted THEN "already"
                              ELSE "granted"])
    /\ UNCHANGED <<trim_last, turn, adapter_calls, prompt_last, format_last,
                   count_last, stream_last, request_last, limit_last,
                   trims,
                   throttle>>

\* revoke_command handles /revoke.
RevokeCommand ==
    /\ \E sender \in Users, arg \in CommandArgs, db_fails \in BOOLEAN :
          LET checks == command_checks(sender, arg)
              to_db == checks = "database"
          IN  auth' = AuthState(
                 IF to_db THEN revoke_access(auth.granted, arg.id, db_fails)
                 ELSE auth.granted,
                 IF to_db /\ ~db_fails THEN auth.revoked \cup {arg.id}
                 ELSE auth.revoked,
                 [op |-> "revoke", sender |-> sender, arg |-> arg,
                  granted_before |-> auth.granted,
                  revoked_before |-> auth.revoked,
                  outcome |-> IF ~to_db THEN checks
                              ELSE IF db_fails THEN "failed"
                              ELSE IF arg.id \in auth.granted THEN "revoked"
                              ELSE "had_no_access"])
    /\ UNCHANGED <<trim_last, turn, adapter_calls, prompt_last, format_last,
                   count_last, stream_last, request_last, limit_last,
                   trims,
                   throttle>>

Init ==
    /\ trim_last = << >>
    /\ turn = TurnIdle
    /\ adapter_calls = << >>
    /\ prompt_last = << >>
    /\ format_last = << >>
    /\ count_last = << >>
    /\ stream_last = << >>
    /\ request_last = << >>
    /\ limit_last = << >>
    /\ auth = AuthIdle
    /\ trims = [chat \in Chats |-> TrimIdle]
    /\ throttle = ThrottleIdle

NextTrim == CallTrimMessagesToFit \/ CallTrimToFit

SpecTrim == Init /\ [][NextTrim]_vars

NextOverlap == \E chat \in Chats : BeginTrim(chat) \/ TrimStep(chat)

SpecOverlap == Init /\ [][NextOverlap]_vars

NextPrompt == CallBuildSystemPrompt

SpecPrompt == Init /\ [][NextPrompt]_vars

NextFormat ==
    \/ CallFormatMessages
    \/ CallProviderFormatMessages
    \/ CallClientFormatMessages

SpecFormat == Init /\ [][NextFormat]_vars

NextTurn ==
    \/ StartTurn
    \/ DownloadImage
    \/ StoreUserMessage
    \/ StreamResponseToUser
    \/ CliGetCompletion
    \/ StoreAssistantMessage

SpecTurn == Init /\ [][NextTurn]_vars

NextAdapter == CallGetCompletion \/ CallGetMaxContextTokens

NextStream == RunStream

SpecStream == Init /\ [][NextStream]_vars

NextAuth == HandleMessage \/ GrantCommand \/ RevokeCommand

SpecAuth == Init /\ [][NextAuth]_vars

NextThrottle == BeginStream \/ OnSnapshot \/ EndOfStream \/ FinalEdit

SpecThrottle == Init /\ [][NextThrottle]_vars

NextRequest == CallBuildRequest

SpecRequest == Init /\ [][NextRequest]_vars

NextCount ==
    \/ CallCountTokens
    \/ CallGeminiCountTokens
    \/ CallCountMessageTokens
    \/ CallCountImageMessage
    \/ AssembleContext
    \/ FallBackToRecent

SpecCount == Init /\ [][NextCount]_vars

SpecAdapter == Init /\ [][NextAdapter]_vars

(***************************************************************************)
(* Properties of trimming                                                  *)
(***************************************************************************)

RECURSIVE SumCosts(_, _, _)
\* the summed cost of messages[from..to]
SumCosts(messages, from, to) ==
    IF from > to THEN 0
    ELSE messages[from].cost + SumCosts(messages, from + 1, to)

\* the summed cost of the last k messages
SumLast(messages, k) == SumCosts(messages, Len(messages) - k + 1, Len(messages))

NoCountRaises(messages) == \A i \in 1..Len(messages) : ~messages[i].raises

\* C1: for a non-empty input and max_tokens - reserve >= 0, both trim
\* functions return a non-empty list whose last element is the input's last
\* element, on the normal walk, for an over-budget newest message and on the
\* exception fallback.
C1_NonEmptyKeepsLast ==
    \A n \in 1..Len(trim_last) :
        LET c == trim_last[n] IN
        (Len(c.messages) > 0 /\ c.max_tokens - c.reserve_tokens >= 0)
            => /\ Len(c.result.kept) > 0
               /\ c.result.kept[Len(c.result.kept)] = c.messages[Len(c.messages)]

\* The newest of several messages is over budget and is the only one kept.
C1_Witness ==
    \E n \in 1..Len(trim_last) :
        LET c == trim_last[n] IN
        /\ Len(c.messages) >= 2
        /\ c.max_tokens - c.reserve_tokens >= 0
        /\ ~c.messages[Len(c.messages)].raises
        /\ c.messages[Len(c.messages)].cost > c.max_tokens - c.reserve_tokens
        /\ c.result.kept = <<c.messages[Len(c.messages)]>>
        /\ c.result.warned

\* C2: the returned list is a contiguous suffix of the input, in the input's
\* order, without gaps, reordering or duplicates.
C2_ContiguousSuffix ==
    \A n \in 1..Len(trim_last) :
        LET c == trim_last[n]
            k == Len(c.result.kept)
        IN  /\ k <= Len(c.messages)
            /\ c.result.kept = SubSeq(c.messages, Len(c.messages) - k + 1,
                                      Len(c.messages))

\* The walk stopped at a message that did not fit although an older one
\* would have: a proper suffix of at least two messages was kept.
C2_Witness ==
    \E n \in 1..Len(trim_last) :
        LET c == trim_last[n]
            k == Len(c.result.kept)
        IN  /\ ~c.result.raised
            /\ k >= 2
            /\ Len(c.messages) >= k + 2
            /\ c.messages[Len(c.messages) - k - 1].cost
                 + c.result.tokens <= c.max_tokens - c.reserve_tokens

\* C3: when every count succeeds, if the last k messages cost at most the
\* budget (inclusive) and the last k+1 cost more, exactly the last k messages
\* are returned; for k = 0 exactly the newest message is returned.
C3_GreedyBudget ==
    \A n \in 1..Len(trim_last) :
        LET c == trim_last[n]
            budget == c.max_tokens - c.reserve_tokens
            len == Len(c.messages)
        IN  NoCountRaises(c.messages) =>
            \A k \in 0..(len - 1) :
                (SumLast(c.messages, k) <= budget
                    /\ SumLast(c.messages, k + 1) > budget)
                => c.result.kept =
                     IF k = 0 THEN <<c.messages[len]>>
                     ELSE SubSeq(c.messages, len - k + 1, len)

\* Costs [2,2,2,2,1] oldest to newest with budget 5 (the 100,100,100,100,50
\* example in units of 50): an exact fit of the last three messages.
C3_Witness ==
    \E n \in 1..Len(trim_last) :
        LET c == trim_last[n] IN
        /\ Len(c.messages) = 5
        /\ NoCountRaises(c.messages)
        /\ [i \in 1..5 |-> c.messages[i].cost] = <<2, 2, 2, 2, 1>>
        /\ c.max_tokens - c.reserve_tokens = 5
        /\ c.result.kept = SubSeq(c.messages, 3, 5)

\* C12: when counting one message fails during the walk, the walk is not
\* aborted: the message is skipped (it is not in the result) and the
\* older messages are still evaluated.
C12_CountFailureSkipped ==
    \A n \in 1..Len(trim_last) :
        LET c == trim_last[n] IN
        Len(c.messages) >= 2
        => /\ ~c.result.raised
           /\ \A i \in 1..Len(c.result.kept) : ~c.result.kept[i].raises

\* C13: when the newest message alone costs more than the budget, also when
\* it is the only message, trim returns exactly that message, raises nothing
\* and logs the over-budget warning.
C13_OverBudgetNewestKeptWithWarning ==
    \A n \in 1..Len(trim_last) :
        LET c == trim_last[n]
            newest == c.messages[Len(c.messages)]
        IN  (Len(c.messages) >= 1 /\ ~newest.raises
                /\ newest.cost > c.max_tokens - c.reserve_tokens)
            => /\ c.result.kept = <<newest>>
               /\ ~c.result.raised
               /\ c.result.warned

\* C23: trimming is a pure function: a call never modifies its input list,
\* and however the calls for different chats overlap, each returns what it
\* returns when it runs alone.
C23_TrimIsPure ==
    \A chat \in Chats :
        LET f == trims[chat] IN
        /\ f.messages = f.arg
        /\ f.pc = "done"
           => f.result = trim_messages_to_fit(f.arg, f.max_tokens, 0).kept

\* The call for chat 2 returned a trimmed list while the call for chat 1 was
\* in its loop with messages already kept.
C23_Witness ==
    /\ trims[1].pc = "loop" /\ trims[1].current_tokens > 0
    /\ trims[2].pc = "done"
    /\ Len(trims[2].arg) >= 2
    /\ Len(trims[2].result) >= 1
    /\ Len(trims[2].result) < Len(trims[2].arg)

(***************************************************************************)
(* Properties of build_system_prompt                                       *)
(***************************************************************************)

\* the accessors are configured and the active persona is returned as name
ActiveIs(c, name) ==
    /\ c.active.kind = "returns" /\ c.active.name = name
    /\ c.text.kind # "unset"

\* C8: exactly one persona body is chosen: the non-empty override; else, in
\* a group chat, the stored text of the active persona, with no text lookup
\* when the active persona is "normal"; else the default selected by
\* is_group.  A private chat without override gets the private default
\* whatever the active persona.
C8_PersonaPrecedence ==
    \A n \in 1..Len(prompt_last) :
        LET c == prompt_last[n]
            r == c.result
            override == Truthy(c.custom_system_prompt)
            stored == /\ c.is_group
                      /\ ActiveIs(c, "villain")
                      /\ c.text.kind = "returns" /\ Truthy(c.text.text)
        IN  /\ ~r.raised
            /\ override => Body(r.prompt) = c.custom_system_prompt
            /\ (~override /\ stored) => Body(r.prompt) = c.text.text
            /\ (~override /\ c.is_group /\ ActiveIs(c, "normal"))
                 => /\ Body(r.prompt) = default_group_prompt
                    /\ \A i \in 1..Len(r.calls) :
                          r.calls[i] # "get_personality_prompt"
            /\ (~override /\ c.is_group /\ ~stored)
                 => Body(r.prompt) = default_group_prompt
            /\ (~override /\ ~c.is_group)
                 => Body(r.prompt) = default_private_prompt

\* Override X in a group chat whose active persona "villain" has text Y:
\* the body is X.
C8_Witness ==
    \E n \in 1..Len(prompt_last) :
        LET c == prompt_last[n] IN
        /\ c.is_group
        /\ c.custom_system_prompt = Str("X")
        /\ ActiveIs(c, "villain")
        /\ c.text = [kind |-> "returns", text |-> Str("Y")]
        /\ Body(c.result.prompt) = Str("X")

C18_ReplyNoteInSystemPrompt ==
    \A n \in 1..Len(request_last) :
        LET c == request_last[n]
            sp == c.system.prompt
        IN  c.reply # << >>
            => /\ ~c.system.raised
               /\ \E i \in 5..Len(sp) : \E j \in (i + 1)..Len(sp) :
                     /\ sp[i] = c.reply[1].sender_name
                     /\ sp[j] = c.reply[1].content

(***************************************************************************)
(* Properties of format_messages                                           *)
(***************************************************************************)

\* a text that carries two sender prefixes: "[x]: [y]: ..."
DoublePrefixed(text) ==
    /\ Len(text) >= 10
    /\ text[1] = "[" /\ text[3] = "]"
    /\ text[6] = "[" /\ text[8] = "]"

\* C10: formatting is idempotent: formatting the formatted list again, with
\* the same is_group, gives the formatted list, for string and multi-part
\* contents; no text ends up with a second sender prefix.
C10_FormatIdempotent ==
    \A n \in 1..Len(format_last) :
        LET c == format_last[n] IN
        /\ c.twice = c.once
        /\ \A i \in 1..Len(c.twice.messages) :
              LET content == c.twice.messages[i].content IN
              /\ ~DoublePrefixed(content.text)
              /\ \A j \in 1..Len(content.parts) :
                    ~DoublePrefixed(content.parts[j].text)

\* A group chat's user message with a plain text and one with a multi-part
\* content: the first formatting prefixed the sender, the second changed
\* nothing.
C10_Witness ==
    \E n \in 1..Len(format_last) :
        LET c == format_last[n] IN
        /\ c.impl = "PromptBuilder"
        /\ c.is_group
        /\ Len(c.messages) = 2
        /\ c.messages[1] = Msg("user", "Bob", StrContent(<<"a">>))
        /\ c.messages[2].role = "user"
        /\ c.messages[2].content.kind = "list"
        /\ Len(c.messages[2].content.parts) = 2
        /\ c.messages[2].content.parts[1].type = "text"
        /\ c.messages[2].content.parts[1].text = <<"a">>
        /\ c.messages[2].content.parts[2].type = "image_url"
        /\ ~c.once.raised
        /\ c.once.messages[1].content.text = <<"[", "Bob", "]", ":", " ", "a">>
        /\ c.once.messages[2].content.parts[1].text
             = <<"[", "Bob", "]", ":", " ", "a">>
        /\ c.twice = c.once

\* a part of a recognized type: a text part or an image part
Recognized(part) ==
    part.type \in {"text", "input_text", "image_url", "input_image"}

\* the output type of a recognized part
OutputType(part) ==
    IF part.type \in {"text", "input_text"} THEN "input_text" ELSE "input_image"

\* C19: format_messages (PromptBuilder, and the formatting inside
\* OpenAIClient.get_completion) does not fail on a part of an unrecognized
\* type and omits it; every recognized part appears exactly once, in input
\* order, as input_text or as input_image with a flat string image_url.
C19_UnknownPartsDropped ==
    \A n \in 1..Len(format_last) :
        LET c == format_last[n]
            last == c.messages[Len(c.messages)]
            out == c.once.messages[Len(c.once.messages)].content.parts
            expected == SelectSeq(last.content.parts, Recognized)
        IN  (c.impl \in {"PromptBuilder", "OpenAIClient"}
                /\ last.content.kind = "list")
            => /\ ~c.once.raised
               /\ Len(c.once.messages) = Len(c.messages)
               /\ Len(out) = Len(expected)
               /\ \A k \in 1..Len(out) :
                     /\ k <= Len(expected) => out[k].type = OutputType(expected[k])
                     /\ out[k].type \in {"input_text", "input_image"}
                     /\ out[k].type = "input_image" => out[k].shape = "str"

\* C30: in a group chat every user-role text message of the formatted
\* output begins with "[" + sender_name + "]: ", also when the stored text
\* itself begins with "[" (as "[image] <caption>" does).
C30_UserTextAttributed ==
    \A n \in 1..Len(format_last) :
        LET c == format_last[n] IN
        (c.impl \in {"PromptBuilder", "OpenAIProvider"} /\ c.is_group
            /\ ~c.once.raised /\ Len(c.once.messages) = Len(c.messages))
        => \A i \in 1..Len(c.messages) :
              (c.messages[i].role = "user" /\ c.messages[i].content.kind = "str")
              => LET text == c.once.messages[i].content.text IN
                 /\ Len(text) >= 5
                 /\ SubSeq(text, 1, 5)
                      = <<"[", sender_name(c.messages[i]), "]", ":", " ">>

(***************************************************************************)
(* Properties of the request handlers                                      *)
(***************************************************************************)

\* C4: on the text path, the image path and the CLI in test mode, a turn
\* whose adapter call or stream ended with an error string stores no
\* assistant message: one is stored only after the provider turn ended with
\* non-error text.
C4_AssistantOnlyAfterSuccess ==
    (turn.path \in BotPaths \cup {"process_message_test"}
        /\ Has(turn.events, "assistant_stored"))
    => turn.ended = "text"

\* C5: in a turn of process_request or process_image_request the provider
\* call comes after the user's message was stored (and the stored message is
\* in the history when the call is issued), and a turn whose write failed
\* issues no provider call.
C5_UserStoredBeforeProviderCall ==
    turn.path \in BotPaths
    => /\ \A i \in 1..Len(turn.events) :
            turn.events[i] = "provider_call"
            => /\ \E j \in 1..(i - 1) : turn.events[j] = "user_stored"
               /\ \E k \in 1..Len(turn.history) :
                     turn.history[k] = Stored("user", turn.turns,
                                              Text("u", "<prompt>", 0, ""))
       /\ Has(turn.events, "user_store_failed")
            => ~Has(turn.events, "provider_call")
       /\ turn.pc \in {"call", "store_assistant"}
            => Has(turn.events, "user_stored")

\* A bot turn whose write failed ended without a provider call, after an
\* earlier turn that stored the user's message, called the provider and
\* stored the reply.
C5_Witness ==
    /\ turn.path \in BotPaths
    /\ turn.pc = "done"
    /\ Has(turn.events, "user_store_failed")
    /\ ~Has(turn.events, "provider_call")
    /\ \E k \in 1..Len(turn.history) :
          turn.history[k].role = "assistant" /\ turn.history[k].turn < turn.turns

(***************************************************************************)
(* Properties of the adapters                                              *)
(***************************************************************************)

\* C6: get_completion of every adapter returns a string for every outcome of
\* message formatting, of the backend call (every exception class) and of
\* reading the response; it never propagates an exception.
C6_AlwaysReturnsString ==
    \A n \in 1..Len(adapter_calls) :
        adapter_calls[n].result.kind = "returned"

\* A failure no named except clause matches (a plain Exception from the
\* backend of OpenAIProvider) came back as a message.
C6_Witness ==
    \E n \in 1..Len(adapter_calls) :
        LET c == adapter_calls[n] IN
        /\ c.provider = "OpenAIProvider"
        /\ c.outcome.stage = "backend"
        /\ c.outcome.cls = "Exception"
        /\ c.result.kind = "returned"
        /\ c.result.text.glyph = CROSS

\* the category of a user-facing message: its wording without the
\* interpolated values
Category(text) == <<text.glyph, text.template>>

\* C7: each of the OpenAI, Gemini and Groq adapters gives each of the seven
\* failure kinds its own category: no failure of another kind gets the
\* category this failure got, and a timeout message carries the configured
\* timeout.
C7_KindsHaveOwnCategory ==
    \A n \in 1..Len(adapter_calls) :
        LET c == adapter_calls[n] IN
        (c.provider \in {"OpenAIProvider", "GeminiProvider", "GroqProvider"}
            /\ c.outcome.stage = "backend")
        => /\ c.result.kind = "returned"
           /\ c.outcome.kind = "timed_out"
                => c.result.text.timeout = c.timeout
           /\ \A o \in BackendFailures(c.provider) :
                o.kind # c.outcome.kind
                => Category(get_completion(c.provider, c.timeout, o).text)
                      # Category(c.result.text)

\* C21: for a backend failure in none of the named categories the returned
\* string is a fixed generic message: the same failure with another raw
\* exception text gives the same string.
C21_UnknownMessageIsGeneric ==
    \A n \in 1..Len(adapter_calls) :
        LET c == adapter_calls[n] IN
        (c.provider \in {"OpenAIProvider", "GeminiProvider", "GroqProvider"}
            /\ c.outcome.stage = "backend" /\ c.outcome.kind = "unknown")
        => \A raw \in RawTexts :
              get_completion(c.provider, c.timeout,
                             [c.outcome EXCEPT !.raw = raw]) = c.result

\* C22: get_max_context_tokens returns the table ceiling for a recognized
\* model and, for an unrecognized one, a default that exceeds no ceiling of
\* the adapter's own table.
C22_DefaultIsConservative ==
    \A n \in 1..Len(limit_last) :
        LET c == limit_last[n]
            table == MODEL_LIMITS(c.provider)
        IN IF c.model \in DOMAIN table
           THEN c.result = table[c.model]
           ELSE \A m \in DOMAIN table : c.result <= table[m]

(***************************************************************************)
(* Properties of token counting                                            *)
(***************************************************************************)

\* C11: count_tokens returns a non-negative integer and raises nothing for
\* every input list (missing role, non-string values, entries that are no
\* message records), and returns the estimate when exact counting fails.
C11_CountNeverRaises ==
    \A n \in 1..Len(count_last) :
        LET c == count_last[n] IN
        (c.op = "count_tokens" /\ c.impl = "TokenManager")
        => /\ c.result.kind = "returned"
           /\ c.result.value >= 0
\* the call counted in estimate mode: no encoding, the Gemini counter, or
\* exact counting failed
EstimateMode(c) ==
    c.impl = "GeminiProvider" \/ ~c.encoding \/ ExactRaises(c.messages)

\* C16: count_message_tokens gives the message's cost without the batch
\* priming: count_tokens([m]) - 2 in exact mode, where the priming was
\* added, and the plain estimate floor(chars / 4) + 4 in estimate mode,
\* where it was not.
C16_PrimingSubtractedWhenAdded ==
    \A n \in 1..Len(count_last) :
        LET c == count_last[n]
            chars == total_chars(c.messages, 1)
        IN  c.op = "count_message_tokens"
            => /\ c.result.kind = "returned"
               /\ ~EstimateMode(c)
                    => c.result.value = count_tokens(TRUE, c.messages).value - 2
               /\ EstimateMode(c)
                    => c.result.value = (chars \div 4) + 4

\* C17: in estimate mode the count of a list of message dicts is
\* floor(total characters / 4) + 4 * number of messages, where the total is
\* the summed length of str(value) over all attributes of all messages; it
\* is 0 for the empty list and is not below the estimate of the list without
\* its last message.
C17_EstimateFormula ==
    \A n \in 1..Len(count_last) :
        LET c == count_last[n]
            chars == total_chars(c.messages, Len(c.messages))
        IN  (c.op = "count_tokens" /\ EstimateMode(c)
                /\ \A i \in 1..Len(c.messages) : c.messages[i].dict)
            => /\ c.result.kind = "returned"
               /\ 4 * (c.result.value - 4 * Len(c.messages)) <= chars
               /\ chars < 4 * (c.result.value - 4 * Len(c.messages)) + 4
               /\ Len(c.messages) = 0 => c.result.value = 0
               /\ Len(c.messages) > 0
                    => LET before == estimate_tokens(
                               SubSeq(c.messages, 1, Len(c.messages) - 1))
                       IN  /\ before.kind = "returned"
                           /\ before.value <= c.result.value

\* Two messages of 7 characters each were estimated at 3 + 8 = 11: the 14
\* characters are divided as a whole.
C17_Witness ==
    \E n \in 1..Len(count_last) :
        LET c == count_last[n] IN
        /\ c.op = "count_tokens"
        /\ EstimateMode(c)
        /\ Len(c.messages) = 2
        /\ \A i \in 1..2 :
              c.messages[i].dict
              /\ attr_chars(c.messages[i].attrs, Len(c.messages[i].attrs)) = 7
        /\ c.result = Counted(11)
        /\ estimate_tokens(SubSeq(c.messages, 1, 1)) = Counted(5)
\* C14: the context trim returns fits the budget as a whole: when it keeps
\* more than one message, count_tokens of the returned list is at most
\* max_tokens - reserve, with the exact counter and with the estimate.
C14_ContextFitsBudget ==
    \A n \in 1..Len(count_last) :
        LET c == count_last[n] IN
        (c.op = "context" /\ Len(c.trimmed.kept) > 1)
        => /\ c.result.kind = "returned"
           /\ c.result.value <= c.max_tokens - c.reserve_tokens

\* C15: the cost trim takes for a stored message is the token_count stored
\* with it at creation, the value the storage pre-filter used; the counter
\* is not applied to it again.
C15_StoredCostUsed ==
    \A n \in 1..Len(count_last) :
        LET c == count_last[n] IN
        (c.op = "context" /\ Len(c.messages) > 1)
        => \A i \in 1..Len(c.messages) :
              c.messages[i].cost = c.rows[c.messages[i].id].token_count

\* C24: the cost of a message whose content is a list of parts is that of
\* its text parts plus a fixed cost per image: the same message with an
\* image url of another length has the same count_tokens.
C24_ImageCostIsFixed ==
    \A n \in 1..Len(count_last) :
        LET c == count_last[n] IN
        c.op = "count_image_message"
        => \A url \in Values :
              count_tokens(c.encoding, <<image_message(c.text, url, c.frame)>>)
                 = c.result

\* C26: the fallback of get_messages_by_tokens returns the chat's last 50
\* messages in chronological order, so it ends with the newest message.
C26_FallbackIsMostRecent ==
    \A n \in 1..Len(count_last) :
        LET c == count_last[n] IN
        (c.op = "fallback" /\ ~c.query_fails)
        => LET k == IF c.stored < FallbackLimit THEN c.stored ELSE FallbackLimit
           IN  c.result = [i \in 1..k |-> c.stored - k + i]

(***************************************************************************)
(* Properties of stream_response_to_user                                   *)
(***************************************************************************)

RECURSIVE LastDisplayed(_, _)
\* the text of the last edit among the first i that succeeded, the
\* placeholder when there is none
LastDisplayed(edits, i) ==
    IF i = 0 THEN Placeholder
    ELSE IF Success(edits[i].result) THEN edits[i].text
    ELSE LastDisplayed(edits, i - 1)

\* C20: after the stream ended, exhausted or by an error snapshot, the last
\* received snapshot is sent in a final edit whenever it is non-empty and
\* differs from the text last successfully displayed, whatever the throttle
\* decided during the loop.
C20_FinalFlush ==
    \A n \in 1..Len(stream_last) :
        LET c == stream_last[n]
            r == c.result
            displayed == LastDisplayed(r.loop.edits, Len(r.loop.edits))
        IN  (r.ended \in {"exhausted", "error_snapshot"} /\ r.loop.consumed >= 1
                /\ NonEmpty(c.steps[r.loop.consumed].snap)
                /\ c.steps[r.loop.consumed].snap # displayed)
            => /\ r.final = <<c.steps[r.loop.consumed].snap>>
               /\ r.edits[Len(r.edits)].text = c.steps[r.loop.consumed].snap

\* The first snapshot was displayed, the second was held back by the
\* throttle, the stream ended: the final edit shows the second.
C20_Witness ==
    \E n \in 1..Len(stream_last) :
        LET c == stream_last[n] IN
        /\ Len(c.steps) = 2
        /\ c.steps[1] = [snap |-> Text("a", "<reply>", 0, ""), due |-> TRUE,
                         edit |-> "ok"]
        /\ c.steps[2] = [snap |-> Text("a", "<reply><more>", 0, ""),
                         due |-> FALSE, edit |-> "none"]
        /\ c.result.ended = "exhausted"
        /\ c.result.final = <<Text("a", "<reply><more>", 0, "")>>

RECURSIVE ShownIfAccepted(_, _)
\* what the bot message shows after the first i edits when the sink accepts
\* every edit whose answer the function does not look at
ShownIfAccepted(edits, i) ==
    IF i = 0 THEN Placeholder
    ELSE IF Success(edits[i].result) \/ edits[i].result = "ignored"
    THEN edits[i].text
    ELSE ShownIfAccepted(edits, i - 1)

\* C29: when stream_response_to_user returns, the bot message shows the text
\* it returns, also when the stream yielded no non-empty snapshot.
C29_ReturnedTextIsShown ==
    \A n \in 1..Len(stream_last) :
        LET r == stream_last[n].result IN
        ShownIfAccepted(r.edits, Len(r.edits)) = r.returned

(***************************************************************************)
(* Properties of authorization                                             *)
(***************************************************************************)

\* C27: a text or photo message whose sender is, when it is handled, neither
\* the main user nor in the granted set is not processed (no provider call,
\* no assistant reply); a sender whose granted lookup fails is treated the
\* same way.
C27_UnauthorizedNotProcessed ==
    LET m == auth.last IN
    (m.op \in {"text", "photo"} /\ m.sender # Main
        /\ (m.sender \notin m.granted_before \/ m.lookup_fails))
    => m.outcome # "processed"

\* A granted user sends a keyword message while the lookup fails and is
\* told to have no access.
C27_Witness ==
    LET m == auth.last IN
    /\ m.op = "text" /\ m.sender = 2 /\ m.has_keyword
    /\ m.sender \in m.granted_before /\ m.lookup_fails
    /\ m.outcome = "no_access"

\* C28: the granted set changes only in a /grant or /revoke of the main
\* user, the main user's id is never in a change of it, and a user the main
\* user has revoked is not authorized until the main user grants that user
\* again.
C28_GrantedSetDiscipline ==
    /\ [](Main \notin auth.granted)
    /\ [](\A u \in auth.revoked : ~is_authorized(auth.granted, u, FALSE))
    /\ []((auth.last.op \in {"text", "photo"}
             /\ auth.last.sender \in auth.last.revoked_before)
          => auth.last.outcome # "processed")
    /\ [][auth'.granted # auth.granted
            => /\ auth'.last.op \in {"grant", "revoke"}
               /\ auth'.last.sender = Main
               /\ Main \notin (auth'.granted \ auth.granted)
                               \cup (auth.granted \ auth'.granted)]_vars

\* The main user granted user 2, revoked user 2, and user 2 then sent a
\* keyword message, which was refused.
C28_Witness ==
    /\ auth.revoked = {2}
    /\ auth.last.op = "text" /\ auth.last.sender = 2
    /\ auth.last.has_keyword /\ ~auth.last.lookup_fails
    /\ auth.last.outcome = "no_access"

(***************************************************************************)
(* Properties of the throttle                                              *)
(***************************************************************************)

\* C25 as stated: every edit attempted inside the loop comes more than 0.8 s
\* after the previous edit attempt, with a text more than 20 characters
\* longer than the one last displayed, and later than r + 0.8 s after an
\* attempt answered RetryAfter(r).
C25_EveryLoopEditThrottled ==
    \A n \in 1..Len(throttle.attempts) :
        LET a == throttle.attempts[n] IN
        a.kind \in {"snapshot", "truncated"}
        => /\ a.previous >= 0 => a.time - a.previous > 8
           /\ a.len - a.last_edit_len > 20
           /\ a.time > a.blocked_until

\* C25, amended: the edit of a snapshot (the throttled edit of the loop) is
\* attempted only more than 0.8 s after the previous edit attempt and with a
\* snapshot more than 20 characters longer than the text last displayed, and
\* after RetryAfter(r) none is attempted until more than r + 0.8 s after
\* that attempt.  The edit that shows the truncated text after a "too long"
\* answer follows its attempt at once and ends the loop.
C25_SnapshotEditThrottled ==
    \A n \in 1..Len(throttle.attempts) :
        LET a == throttle.attempts[n] IN
        /\ a.kind = "snapshot"
           => /\ a.previous >= 0 => a.time - a.previous > 8
              /\ a.len - a.last_edit_len > 20
              /\ a.time > a.blocked_until
        /\ a.kind = "truncated"
           => /\ n = 2 /\ throttle.attempts[1].answer.result = "too_long"
              /\ throttle.pc = "after_loop"

\* A snapshot is edited in after an earlier attempt was answered
\* RetryAfter: the wait is over.
C25_Witness ==
    /\ Len(throttle.attempts) = 1
    /\ throttle.attempts[1].kind = "snapshot"
    /\ throttle.attempts[1].blocked_until > 0
    /\ throttle.attempts[1].previous >= 0
====
